---- MODULE Spec2Model ----
(***************************************************************************)
(* The Codecov extension controller (run, src/src/extension.ts) as a state *)
(* machine.  One action is one uninterrupted run of JavaScript: a handler  *)
(* from its start to its first real suspension (a coverage fetch or a host *)
(* round trip), or a suspended handler from its resumption to its next     *)
(* suspension or its end.                                                  *)
(*                                                                         *)
(* JavaScript values: undefined is the string "undefined", booleans are    *)
(* "true" and "false", a property that is not there at all is "<missing>", *)
(* null is "<null>".  A URL string is a record of its parts.               *)
(***************************************************************************)
EXTENDS Integers, Sequences, FiniteSets, TLC

VARIABLES
    initialized,            \* let initialized = false
    root,                   \* let root: Pick<ResolvedURI,'repo'|'rev'> | null
    settings,               \* let settings!: Settings
    lastOpenedTextDocument, \* let lastOpenedTextDocument: TextDocument | undefined
    openDocs,               \* textDocuments.all(), in the order of opening
    tasks,                  \* suspended handlers and detached promise chains
    hostConfig,             \* the host's merged configuration
    notifs,                 \* configuration-change notifications in flight:
                            \* merged, the configuration sent; pre, the host's
                            \* configuration before the change; by, the
                            \* update request that caused it (or an edit)
    ev,                     \* the step just taken: what ran and how it ended
    out,                    \* what the step just taken sent to the host
    nev                     \* host events delivered so far

vars == <<initialized, root, settings, lastOpenedTextDocument, openDocs, tasks,
          hostConfig, notifs, ev, out, nev>>

----------------------------------------------------------------------------
(* Bounds *)

\* Host events (requests and notifications the host originates) per behaviour.
MaxEvents == 3

\* Suspended pieces of work beyond which the host holds its next event back.
MaxTasks == 2

----------------------------------------------------------------------------
(* JavaScript values *)

Undef == "undefined"
Missing == "<missing>"
Null == "<null>"
Undefined == [undefined |-> TRUE]   \* an undefined object reference
NullRoot == [null |-> TRUE]         \* root === null
NoDoc == "undefined"                \* lastOpenedTextDocument === undefined

\* !v
Not(v) == IF v \in {"false", Undef, Null, ""} THEN "true" ELSE "false"
\* !!v
Truthy(v) == Not(Not(v))

----------------------------------------------------------------------------
(* settings.ts, second version *)

NoUrl == [scheme |-> "", host |-> "", rest |-> ""]   \* url undefined or ''
CODECOV_IO_URL == [scheme |-> "https:", host |-> "codecov.io", rest |-> ""]

urlWithOnlyProtocolAndHost(url) ==
    [scheme |-> url.scheme, host |-> url.host, rest |-> ""]

MapEndpoint(e) ==
    [url   |-> IF e.url # NoUrl THEN urlWithOnlyProtocolAndHost(e.url)
               ELSE CODECOV_IO_URL,
     token |-> IF e.token = Missing THEN Undef ELSE e.token]

\* The supplied endpoints mapped, with no default for none
resolveEndpoints_noDefault(raw) ==
    [i \in 1..Len(raw.endpoints) |-> MapEndpoint(raw.endpoints[i])]

resolveEndpoints(raw) ==
    IF ~raw.hasEndpoints \/ Len(raw.endpoints) = 0
    THEN <<[url |-> CODECOV_IO_URL, token |-> Missing]>>
    ELSE [i \in 1..Len(raw.endpoints) |-> MapEndpoint(raw.endpoints[i])]

\* The settings with the endpoint list as the raw value has it
resolveSettings_rawEndpoints(raw) ==
    [showCoverage  |-> IF raw.showCoverage # "false" THEN "true" ELSE "false",
     lineCoverage  |-> IF raw.lineCoverage # "false" THEN "true" ELSE "false",
     lineHitCounts |-> Truthy(raw.lineHitCounts),
     hasEndpoints  |-> TRUE,
     endpoints     |-> raw.endpoints]

resolveSettings(raw) ==
    [showCoverage  |-> IF raw.showCoverage # "false" THEN "true" ELSE "false",
     lineCoverage  |-> IF raw.lineCoverage # "false" THEN "true" ELSE "false",
     lineHitCounts |-> Truthy(raw.lineHitCounts),
     hasEndpoints  |-> TRUE,
     endpoints     |-> resolveEndpoints(raw)]

\* Equality of references: two separately resolved objects are never equal.
isEqual_identity(a, b) == FALSE

\* cxp/module/util isEqual: deep equality, sensitive to which keys are there
isEqual(a, b) == a = b

----------------------------------------------------------------------------
(* Documents, roots and their resolution (uri.ts) *)

GitDoc == "git://github.com/o/r?v1#a.go"    \* carries repo, revision, path
FileDoc == "file:///ws/b.go"                \* needs the ambient root
Docs == {GitDoc, FileDoc}

GitRoot == "git://github.com/o/r?v1"
OrigRoot == "git://github.com/o/r?v0"
FileRoot == "file:///ws"

ThrewURI == [threw |-> "MissingRoot"]

\* The resolution that makes up a location when it has no root to go by
resolveURI_invented(r, uri) ==
    CASE uri = GitDoc   -> [repo |-> "github.com/o/r", rev |-> "v1", path |-> "a.go"]
      [] uri = GitRoot  -> [repo |-> "github.com/o/r", rev |-> "v1", path |-> ""]
      [] uri = OrigRoot -> [repo |-> "github.com/o/r", rev |-> "v0", path |-> ""]
      [] OTHER -> [repo |-> IF r = NullRoot THEN "" ELSE r.repo,
                   rev |-> IF r = NullRoot THEN "" ELSE r.rev,
                   path |-> IF uri = FileDoc THEN "ws/b.go" ELSE "ws"]

resolveURI(r, uri) ==
    CASE uri = GitDoc   -> [repo |-> "github.com/o/r", rev |-> "v1", path |-> "a.go"]
      [] uri = GitRoot  -> [repo |-> "github.com/o/r", rev |-> "v1", path |-> ""]
      [] uri = OrigRoot -> [repo |-> "github.com/o/r", rev |-> "v0", path |-> ""]
      [] OTHER -> IF r = NullRoot THEN ThrewURI
                  ELSE [repo |-> r.repo, rev |-> r.rev,
                        path |-> IF uri = FileDoc THEN "ws/b.go" ELSE "ws"]

codecovParamsForRepositoryCommit(r) ==
    [service |-> "gh", owner |-> "o", repo |-> "r", sha |-> r.rev]

----------------------------------------------------------------------------
(* model.ts: the endpoint a fetch is issued for *)

\* The parameters taken from the last endpoint of the list
codecovParamsForEndpoint_last(s) ==
    [baseURL |-> s.endpoints[Len(s.endpoints)].url,
     token |-> s.endpoints[Len(s.endpoints)].token]

codecovParamsForEndpoint(s) ==
    [baseURL |-> s.endpoints[1].url, token |-> s.endpoints[1].token]

NoFetch == [baseURL |-> NoUrl, token |-> Missing]

----------------------------------------------------------------------------
(* Command and action ids *)

TOGGLE_COVERAGE_DECORATIONS_COMMAND_ID == "codecov.decorations.coverage.toggle"
TOGGLE_HITS_DECORATIONS_COMMAND_ID == "codecov.decorations.hits.toggle"
VIEW_FILE_COVERAGE_ACTION_ID == "codecov.link.file"
VIEW_COMMIT_COVERAGE_ACTION_ID == "codecov.link.commit"
SET_API_TOKEN_COMMAND_ID == "codecov.setAPIToken"
HELP_ACTION_ID == "codecov.help"

\* The command ids the host may send: the five the extension registers and
\* one it does not (an action id whose command is 'open').
Commands ==
    {TOGGLE_COVERAGE_DECORATIONS_COMMAND_ID, TOGGLE_HITS_DECORATIONS_COMMAND_ID,
     VIEW_FILE_COVERAGE_ACTION_ID, SET_API_TOKEN_COMMAND_ID, HELP_ACTION_ID,
     VIEW_COMMIT_COVERAGE_ACTION_ID}

----------------------------------------------------------------------------
(* What the extension sends *)

PublishDecorations(uri, s) ==
    [type |-> "textDocument/publishDecorations", uri |-> uri,
     lineCoverage |-> s.lineCoverage, lineHitCounts |-> s.lineHitCounts]
Fetch(op, loc, ep) == [type |-> "fetch", op |-> op, loc |-> loc, ep |-> ep]
UpdateContext(ctx) == [type |-> "updateContext", context |-> ctx]
ConsoleError(src) == [type |-> "error", source |-> src]
ConsoleLog(src) == [type |-> "log", source |-> src]
ShowInputRequest(endpoint) ==
    [type |-> "window/showInputRequest", url |-> endpoint.url,
     default |-> endpoint.token]
ConfigurationUpdate(params) ==
    [type |-> "configuration/update", path |-> params.path,
     value |-> params.value]
InitializeResult ==
    [type |-> "initializeResult",
     commands |-> {TOGGLE_COVERAGE_DECORATIONS_COMMAND_ID,
                   TOGGLE_HITS_DECORATIONS_COMMAND_ID,
                   VIEW_FILE_COVERAGE_ACTION_ID, SET_API_TOKEN_COMMAND_ID,
                   HELP_ACTION_ID}]

IsType(o, ty) == o.type = ty
Sent(ty) == {i \in DOMAIN out : out[i].type = ty}

----------------------------------------------------------------------------
(* Suspended work *)

EmptyContext == [k \in {} |-> ""]
NoParams == [path |-> <<>>, value |-> ""]

\* kind:  which handler or detached chain this is
\* pc:    the await it is suspended on
\* docs:  publishDecorations' documents still to do (the head is in flight)
\* live:  its settings argument is the object `settings` refers to now;
\*        otherwise snap is that object's (final) value
\* ep:    the endpoint of the fetch in flight
\* old:   onDidChangeConfiguration's oldSettings
\* ctx:   updateFileCoverageClientContext's context so far
\* doc:   onDidOpen's document
\* req:   the configuration-update request in flight
\* awaited: the request handler that started it has not returned, and will
\*        not before it settles (no handler of run awaits its detached work)
NewTask(kind) ==
    [kind |-> kind, pc |-> "", docs |-> <<>>, live |-> FALSE,
     snap |-> Undefined, ep |-> NoFetch, old |-> Undefined,
     ctx |-> EmptyContext, doc |-> NoDoc, req |-> NoParams,
     awaited |-> FALSE]

TaskSettings(t, cur) == IF t.live THEN cur ELSE t.snap

\* The result of one run: the task it leaves suspended (none: it ended), what
\* it sent, and the error it ended with ("none": it did not fail).
Ended(o) == [next |-> <<>>, out |-> o, error |-> "none"]
Rejected(o, err) == [next |-> <<>>, out |-> o, error |-> err]
Suspended(t, o) == [next |-> <<t>>, out |-> o, error |-> "none"]

Remove(seq, i) == [j \in 1..(Len(seq) - 1) |-> IF j < i THEN seq[j] ELSE seq[j + 1]]

\* Work in flight following `settings` to the object that replaces it
Detach_follow(ts) == ts

\* `settings` is about to refer to another object: what was passed the old
\* one keeps it.
Detach(ts) ==
    [i \in DOMAIN ts |->
        IF ts[i].live THEN [ts[i] EXCEPT !.live = FALSE, !.snap = settings]
        ELSE ts[i]]

----------------------------------------------------------------------------
(* Coverage data as the Model operations return it.  Ratios are in         *)
(* hundredths of a percent: 8754 is 87.54.                                 *)

NoRatio == 0 - 1                    \* the service reported no ratio
CommitRatios == {NoRatio, 0, 8754}
EmptyTable == [p \in {} |-> 0]
FileTables == {EmptyTable, [p \in {"a.go"} |-> 3390]}
CtxNull == 0 - 1                    \* a context value of null

\* ratio.toFixed(1), in tenths of a percent
toFixed1(r) == (r + 5) \div 10
\* Math.floor(ratio), in percent
Floor(r) == r \div 100

FetchResults(pc) ==
    CASE pc = "ctx1" -> CommitRatios
      [] pc = "ctx2" -> FileTables
      [] pc = "ratio" -> {NoRatio, 3390}
      [] OTHER -> {0}

----------------------------------------------------------------------------
(* updateFileCoverageClientContext, publishDecorations and the handlers'   *)
(* continuations.  cur is the object `settings` refers to as the code runs.*)

Then(o, r) == [r EXCEPT !.out = o \o @]

RepoURL(p) == <<"https://codecov.io", p.service, p.owner, p.repo>>

BaseContext(r) ==
    LET p == codecovParamsForRepositoryCommit(r) IN
    (<<"codecov.repoURL">> :> RepoURL(p))
    @@ (<<"codecov.commitURL">> :> RepoURL(p) \o <<"commit", p.sha>>)

\* The loop writing a file's ratio and not its URL
FileContext_ratioOnly(r, table) ==
    [k \in {<<"codecov.coverageRatio", r.repo, r.rev, path>> : path \in DOMAIN table} |->
        <<Floor(table[k[4]])>>]

FileContext(r, table) ==
    LET p == codecovParamsForRepositoryCommit(r) IN
    [k \in UNION {{<<"codecov.coverageRatio", r.repo, r.rev, path>>,
                   <<"codecov.fileURL", r.repo, r.rev, path>>} :
                  path \in DOMAIN table} |->
        IF k[1] = "codecov.coverageRatio" THEN <<Floor(table[k[4]])>>
        ELSE RepoURL(p) \o <<"src", p.sha, k[4]>>]

\* The refresh without its check of root
StartRefresh_unguarded(t, cur) ==
    IF root = NullRoot THEN Rejected(<<>>, "TypeError")
    ELSE LET ep == codecovParamsForEndpoint(cur) IN
         Suspended([t EXCEPT !.pc = "ctx1", !.docs = <<>>, !.ep = ep,
                             !.ctx = BaseContext(root)],
                   <<Fetch("getCommitCoverageRatio", root, ep)>>)

\* updateFileCoverageClientContext up to its first await
StartRefresh(t, cur) ==
    IF root = NullRoot THEN Ended(<<>>)
    ELSE LET ep == codecovParamsForEndpoint(cur) IN
         Suspended([t EXCEPT !.pc = "ctx1", !.docs = <<>>, !.ep = ep,
                             !.ctx = BaseContext(root)],
                   <<Fetch("getCommitCoverageRatio", root, ep)>>)

\* onDidOpen after its publish: the best-effort ratio
StartRatio(t, cur) ==
    LET loc == resolveURI(root, t.doc)
        ep == codecovParamsForEndpoint(cur) IN
    IF loc = ThrewURI
    THEN Ended(<<ConsoleError("Error computing file coverage ratio")>>)
    ELSE Suspended([t EXCEPT !.pc = "ratio", !.docs = <<>>, !.ep = ep],
                   <<Fetch("getFileCoverageRatio", loc, ep)>>)

\* The refresh without the endpoints comparison
CfgAfterPublish_always(t, cur) ==
    IF t.old = Undefined THEN Rejected(<<>>, "TypeError")
    ELSE StartRefresh(t, cur)

\* onDidChangeConfiguration after its publish: the endpoints comparison
CfgAfterPublish(t, cur) ==
    IF t.old = Undefined THEN Rejected(<<>>, "TypeError")
    ELSE IF ~isEqual(cur.endpoints, t.old.endpoints) THEN StartRefresh(t, cur)
    ELSE Ended(<<>>)

AfterPublish(t, cur) ==
    CASE t.kind = "cfg" -> CfgAfterPublish(t, cur)
      [] t.kind = "open" -> StartRatio(t, cur)
      [] OTHER -> Ended(<<>>)

\* publishDecorations' rejection with no catch anywhere
PublishFailed_uncaught(t, err) == Rejected(<<>>, err)

\* A rejection of publishDecorations: the command's call has a catch, the
\* awaiting handlers have none.
PublishFailed(t, err) ==
    IF t.kind = "cmd" THEN Ended(<<ConsoleError("publishDecorations:")>>)
    ELSE Rejected(<<>>, err)

\* publishDecorations' loop from the document at the head of docs
PublishNext(t, docs, cur) ==
    IF docs = <<>> THEN AfterPublish(t, cur)
    ELSE LET loc == resolveURI(root, Head(docs))
             ep == codecovParamsForEndpoint(TaskSettings(t, cur)) IN
         IF loc = ThrewURI THEN PublishFailed(t, "MissingRoot")
         ELSE Suspended([t EXCEPT !.pc = "publish", !.docs = docs, !.ep = ep],
                        <<Fetch("getFileLineCoverage", loc, ep)>>)

\* A fetch resolved with data: the suspended code runs on.
Resume(t, data, cur) ==
    CASE t.pc = "publish" ->
            Then(<<PublishDecorations(Head(t.docs), TaskSettings(t, cur))>>,
                 PublishNext(t, Tail(t.docs), cur))
      [] t.pc = "ctx1" ->
            LET ep == codecovParamsForEndpoint(cur)
                cc == IF data # NoRatio /\ data # 0 THEN toFixed1(data)
                      ELSE CtxNull IN
            Suspended([t EXCEPT !.pc = "ctx2", !.ep = ep,
                                !.ctx = (<<"codecov.commitCoverage">> :> <<cc>>) @@ @],
                      <<Fetch("getFileCoverageRatios", root, ep)>>)
      [] t.pc = "ctx2" ->
            Ended(<<UpdateContext(FileContext(root, data) @@ t.ctx)>>)
      [] t.pc = "ratio" ->
            Ended(<<ConsoleLog("File coverage ratio")>>)

\* The ratio fetch outside onDidOpen's try
Fail_ratioUncaught(t) ==
    CASE t.pc = "publish" -> PublishFailed(t, "RemoteUnavailable")
      [] t.pc \in {"ctx1", "ctx2"} ->
            Ended(<<ConsoleError("Error loading Codecov file coverage"),
                    UpdateContext(t.ctx)>>)
      [] t.pc = "ratio" -> Rejected(<<>>, "RemoteUnavailable")

\* updateContext inside the refresh's try
Fail_contextInTry(t) ==
    CASE t.pc = "publish" -> PublishFailed(t, "RemoteUnavailable")
      [] t.pc \in {"ctx1", "ctx2"} ->
            Ended(<<ConsoleError("Error loading Codecov file coverage")>>)
      [] t.pc = "ratio" ->
            Ended(<<ConsoleError("Error computing file coverage ratio")>>)

\* A fetch rejected.
Fail(t) ==
    CASE t.pc = "publish" -> PublishFailed(t, "RemoteUnavailable")
      [] t.pc \in {"ctx1", "ctx2"} ->
            Ended(<<ConsoleError("Error loading Codecov file coverage"),
                    UpdateContext(t.ctx)>>)
      [] t.pc = "ratio" ->
            Ended(<<ConsoleError("Error computing file coverage ratio")>>)

----------------------------------------------------------------------------
(* The host: its configuration and what it offers at the handshake *)

HExample == [scheme |-> "https:", host |-> "h.example", rest |-> "/a/b?x=1"]

DefaultRaw ==
    [showCoverage |-> Undef, lineCoverage |-> Undef, lineHitCounts |-> Undef,
     hasEndpoints |-> FALSE, endpoints |-> <<>>]
PrivateRaw ==
    [DefaultRaw EXCEPT !.hasEndpoints = TRUE,
                       !.endpoints = <<[url |-> HExample, token |-> Missing]>>]
InitConfigs == {DefaultRaw, PrivateRaw}

\* The user edits the settings: an unrelated key, the endpoints, a flag.
EditOps == {"touch", "endpoints", "hits"}
Edit(config, op) ==
    CASE op = "touch" -> config
      [] op = "endpoints" ->
            IF config.hasEndpoints
            THEN [config EXCEPT !.hasEndpoints = FALSE, !.endpoints = <<>>]
            ELSE [config EXCEPT !.hasEndpoints = TRUE,
                                !.endpoints = PrivateRaw.endpoints]
      [] op = "hits" ->
            [config EXCEPT !.lineHitCounts = IF @ = "true" THEN Undef ELSE "true"]

\* The host applies a configuration-update request; null unsets.
ApplyUpdate(config, req) ==
    LET v == IF req.value \in {Null, ""} THEN Missing ELSE req.value IN
    CASE req.path = <<"codecov.decorations.lineCoverage">> ->
            [config EXCEPT !.lineCoverage = req.value]
      [] req.path = <<"codecov.decorations.lineHitCounts">> ->
            [config EXCEPT !.lineHitCounts = req.value]
      [] req.path = <<"codecov.endpoints", "0", "token">> ->
            [config EXCEPT
                !.hasEndpoints = TRUE,
                !.endpoints = IF Len(@) = 0 THEN <<[url |-> NoUrl, token |-> v]>>
                              ELSE [@ EXCEPT ![1].token = v]]

InitParams ==
    {[originalRootUri |-> Undef, root |-> Undef],
     [originalRootUri |-> Undef, root |-> GitRoot],
     [originalRootUri |-> OrigRoot, root |-> GitRoot],
     [originalRootUri |-> OrigRoot, root |-> Undef],
     [originalRootUri |-> Undef, root |-> FileRoot]}

----------------------------------------------------------------------------
(* The state after run(connection) *)

\* kind, arg: the event and its argument; task, pc, idx: the suspended work
\* that ran on, where it was suspended, and its place in tasks
Event(kind, arg, error) ==
    [kind |-> kind, arg |-> arg, task |-> "", pc |-> "", idx |-> 0,
     error |-> error]
Resumption(kind, arg, i, error) ==
    [kind |-> kind, arg |-> arg, task |-> tasks[i].kind, pc |-> tasks[i].pc,
     idx |-> i, error |-> error]

Notification(merged, pre, by) == [merged |-> merged, pre |-> pre, by |-> by]

Init ==
    /\ initialized = FALSE
    /\ root = NullRoot
    /\ settings = Undefined
    /\ lastOpenedTextDocument = NoDoc
    /\ openDocs = <<>>
    /\ tasks = <<>>
    /\ hostConfig \in InitConfigs
    /\ notifs = <<>>
    /\ ev = Event("run", "", "none")
    /\ out = <<>>
    /\ nev = 0

HostEvent == nev < MaxEvents /\ Len(tasks) < MaxTasks /\ nev' = nev + 1

----------------------------------------------------------------------------
(* The handlers *)

\* No guard on a repeated handshake
alreadyInitialized_never == FALSE

\* if (initialized) { throw new Error('already initialized') }
alreadyInitialized == initialized

\* The handshake preferring the direct root to the proxy's original root
onInitialize_directFirst(params) ==
    /\ HostEvent
    /\ IF alreadyInitialized
       THEN /\ ev' = Event("Initialize", "", "already initialized")
            /\ out' = <<>>
            /\ UNCHANGED <<initialized, root, settings, tasks>>
       ELSE LET rootStr == IF params.root # Undef
                           THEN params.root ELSE params.originalRootUri
                r == IF rootStr # Undef THEN resolveURI(NullRoot, rootStr)
                     ELSE NullRoot IN
            /\ initialized' = TRUE
            /\ IF r = ThrewURI
               THEN /\ ev' = Event("Initialize", "", "MissingRoot")
                    /\ out' = <<>>
                    /\ UNCHANGED <<root, settings, tasks>>
               ELSE /\ root' = IF r = NullRoot THEN NullRoot
                               ELSE [repo |-> r.repo, rev |-> r.rev]
                    /\ settings' = resolveSettings(hostConfig)
                    /\ tasks' = Detach(tasks)
                    /\ ev' = Event("Initialize", "", "none")
                    /\ out' = <<InitializeResult>>
    /\ UNCHANGED <<lastOpenedTextDocument, openDocs, hostConfig, notifs>>

\* connection.onInitialize
onInitialize(params) ==
    /\ HostEvent
    /\ IF alreadyInitialized
       THEN /\ ev' = Event("Initialize", "", "already initialized")
            /\ out' = <<>>
            /\ UNCHANGED <<initialized, root, settings, tasks>>
       ELSE LET rootStr == IF params.originalRootUri # Undef
                           THEN params.originalRootUri ELSE params.root
                r == IF rootStr # Undef THEN resolveURI(NullRoot, rootStr)
                     ELSE NullRoot IN
            /\ initialized' = TRUE
            /\ IF r = ThrewURI
               THEN /\ ev' = Event("Initialize", "", "MissingRoot")
                    /\ out' = <<>>
                    /\ UNCHANGED <<root, settings, tasks>>
               ELSE /\ root' = IF r = NullRoot THEN NullRoot
                               ELSE [repo |-> r.repo, rev |-> r.rev]
                    /\ settings' = resolveSettings(hostConfig)
                    /\ tasks' = Detach(tasks)
                    /\ ev' = Event("Initialize", "", "none")
                    /\ out' = <<InitializeResult>>
    /\ UNCHANGED <<lastOpenedTextDocument, openDocs, hostConfig, notifs>>

\* connection.onInitialized
onInitialized ==
    /\ HostEvent
    /\ LET r == StartRefresh(NewTask("initialized"), settings) IN
       /\ tasks' = tasks \o r.next
       /\ out' = r.out
       /\ ev' = Event("Initialized", "", r.error)
    /\ UNCHANGED <<initialized, root, settings, lastOpenedTextDocument,
                   openDocs, hostConfig, notifs>>

\* The first key of the path of the update that caused a notification
CausePath(by) == IF by.req.path = <<>> THEN "" ELSE by.req.path[1]

\* connection.onDidChangeConfiguration, for the notification at the head
onDidChangeConfiguration ==
    /\ notifs # <<>>
    /\ notifs' = Tail(notifs)
    /\ LET newSettings == resolveSettings(Head(notifs).merged)
           cause == Head(notifs).by IN
       IF isEqual(settings, newSettings)
       THEN /\ ev' = [Event("ConfigurationChanged", "equal", "none")
                        EXCEPT !.task = cause.kind, !.pc = CausePath(cause)]
            /\ out' = <<>>
            /\ UNCHANGED <<settings, tasks>>
       ELSE LET t == [NewTask("cfg") EXCEPT !.live = TRUE, !.old = settings]
                r == IF lastOpenedTextDocument # NoDoc
                     THEN PublishNext(t, openDocs, newSettings)
                     ELSE CfgAfterPublish(t, newSettings) IN
            /\ settings' = newSettings
            /\ tasks' = Detach(tasks) \o r.next
            /\ out' = r.out
            /\ ev' = [Event("ConfigurationChanged", "changed", r.error)
                        EXCEPT !.task = cause.kind, !.pc = CausePath(cause)]
    /\ UNCHANGED <<initialized, root, lastOpenedTextDocument, openDocs,
                   hostConfig, nev>>

\* The open handler taking root from the document it is given
onDidOpen_rootFromDocument(doc) ==
    /\ HostEvent
    /\ lastOpenedTextDocument' = doc
    /\ openDocs' = IF \E i \in DOMAIN openDocs : openDocs[i] = doc
                   THEN openDocs ELSE Append(openDocs, doc)
    /\ root' = IF resolveURI(root, doc) = ThrewURI THEN root
               ELSE [repo |-> resolveURI(root, doc).repo,
                     rev |-> resolveURI(root, doc).rev]
    /\ LET t == [NewTask("open") EXCEPT !.live = TRUE, !.doc = doc]
           r == IF settings # Undefined
                THEN PublishNext(t, <<doc>>, settings) ELSE Ended(<<>>) IN
       /\ tasks' = tasks \o r.next
       /\ out' = r.out
       /\ ev' = Event("DidOpen", doc, r.error)
    /\ UNCHANGED <<initialized, settings, hostConfig, notifs>>

\* textDocuments.onDidOpen: both listeners
onDidOpen(doc) ==
    /\ HostEvent
    /\ lastOpenedTextDocument' = doc
    /\ openDocs' = IF \E i \in DOMAIN openDocs : openDocs[i] = doc
                   THEN openDocs ELSE Append(openDocs, doc)
    /\ LET t == [NewTask("open") EXCEPT !.live = TRUE, !.doc = doc]
           r == IF settings # Undefined
                THEN PublishNext(t, <<doc>>, settings) ELSE Ended(<<>>) IN
       /\ tasks' = tasks \o r.next
       /\ out' = r.out
       /\ ev' = Event("DidOpen", doc, r.error)
    /\ UNCHANGED <<initialized, root, settings, hostConfig, notifs>>

\* Any close clearing the reference
onDidClose_always(doc) ==
    /\ HostEvent
    /\ \E i \in DOMAIN openDocs : openDocs[i] = doc
    /\ openDocs' = SelectSeq(openDocs, LAMBDA d : d # doc)
    /\ lastOpenedTextDocument' = NoDoc
    /\ ev' = Event("DidClose", doc, "none")
    /\ out' = <<>>
    /\ UNCHANGED <<initialized, root, settings, tasks, hostConfig, notifs>>

\* A close leaving the reference as it is
onDidClose_keep(doc) ==
    /\ HostEvent
    /\ \E i \in DOMAIN openDocs : openDocs[i] = doc
    /\ openDocs' = SelectSeq(openDocs, LAMBDA d : d # doc)
    /\ ev' = Event("DidClose", doc, "none")
    /\ out' = <<>>
    /\ UNCHANGED <<initialized, root, settings, lastOpenedTextDocument, tasks,
                   hostConfig, notifs>>

\* textDocuments.onDidClose
onDidClose(doc) ==
    /\ HostEvent
    /\ \E i \in DOMAIN openDocs : openDocs[i] = doc
    /\ openDocs' = SelectSeq(openDocs, LAMBDA d : d # doc)
    /\ lastOpenedTextDocument' =
          IF lastOpenedTextDocument # NoDoc /\ lastOpenedTextDocument = doc
          THEN NoDoc ELSE lastOpenedTextDocument
    /\ ev' = Event("DidClose", doc, "none")
    /\ out' = <<>>
    /\ UNCHANGED <<initialized, root, settings, tasks, hostConfig, notifs>>

----------------------------------------------------------------------------
(* connection.onExecuteCommand *)

\* executeConfigurationCommand(newSettings, configParams), newSettings being
\* the object `settings` refers to.  The request in flight remembers the
\* settings before and after the command (old, snap).
executeConfigurationCommand(cur, configParams) ==
    LET pub == PublishNext([NewTask("cmd") EXCEPT !.live = TRUE], openDocs, cur) IN
    [next  |-> <<[NewTask("update") EXCEPT !.pc = "update", !.req = configParams,
                                           !.old = settings, !.snap = cur]>>
               \o pub.next,
     out   |-> <<ConfigurationUpdate(configParams)>> \o pub.out,
     error |-> "none"]

\* The prompt awaited inside the handler
setAPIToken_awaited(cur) ==
    Suspended([NewTask("prompt") EXCEPT !.pc = "prompt", !.awaited = TRUE],
              <<ShowInputRequest(cur.endpoints[1])>>)

\* case SET_API_TOKEN_COMMAND_ID, up to the fall-through into HELP's break
setAPIToken(cur) ==
    Suspended([NewTask("prompt") EXCEPT !.pc = "prompt"],
              <<ShowInputRequest(cur.endpoints[1])>>)

\* The object `settings` refers to after the command's assignments to it
SettingsAfter(cmd) ==
    CASE settings = Undefined -> settings
      [] cmd = TOGGLE_COVERAGE_DECORATIONS_COMMAND_ID ->
            [settings EXCEPT !.lineCoverage = Not(@)]
      [] cmd = TOGGLE_HITS_DECORATIONS_COMMAND_ID ->
            [settings EXCEPT !.lineHitCounts = Not(@)]
      [] OTHER -> settings

\* The value read before the flip
CoverageToggleParams_stale(cur) ==
    [path |-> <<"codecov.decorations.lineCoverage">>,
     value |-> Not(cur.lineCoverage)]

\* The toggles' configuration-update parameters, read from the flipped settings
CoverageToggleParams(cur) ==
    [path |-> <<"codecov.decorations.lineCoverage">>, value |-> cur.lineCoverage]
HitsToggleParams(cur) ==
    [path |-> <<"codecov.decorations.lineHitCounts">>, value |-> cur.lineHitCounts]

\* The switch of onExecuteCommand
Command(cmd) ==
    LET cur == SettingsAfter(cmd) IN
    CASE cmd = TOGGLE_COVERAGE_DECORATIONS_COMMAND_ID ->
            IF settings = Undefined THEN Rejected(<<>>, "TypeError")
            ELSE executeConfigurationCommand(cur, CoverageToggleParams(cur))
      [] cmd = TOGGLE_HITS_DECORATIONS_COMMAND_ID ->
            IF settings = Undefined THEN Rejected(<<>>, "TypeError")
            ELSE executeConfigurationCommand(cur, HitsToggleParams(cur))
      [] cmd = VIEW_FILE_COVERAGE_ACTION_ID -> Ended(<<>>)
      [] cmd = SET_API_TOKEN_COMMAND_ID ->
            IF settings = Undefined THEN Rejected(<<>>, "TypeError")
            ELSE setAPIToken(cur)
      [] cmd = HELP_ACTION_ID -> Ended(<<>>)
      [] OTHER -> Rejected(<<>>, "unknown command")

onExecuteCommand(cmd) ==
    /\ HostEvent
    /\ LET r == Command(cmd) IN
       /\ settings' = SettingsAfter(cmd)
       /\ tasks' = tasks \o r.next
       /\ out' = r.out
       /\ ev' = Event("ExecuteCommand", cmd, r.error)
    /\ UNCHANGED <<initialized, root, lastOpenedTextDocument, openDocs,
                   hostConfig, notifs>>

\* The user's answers to the prompt: cancelled, cleared, a token
PromptAnswers == {Null, "", "tok"}

\* The token as typed, '' included
TokenValue_raw(token) == token

\* token || null
TokenValue(token) == IF token = "" THEN Null ELSE token

\* showInputRequest(...).then(token => ...): the host answers once the
\* command's own response is out.
PromptResponse(i, token) ==
    /\ tasks[i].kind = "prompt"
    /\ ~tasks[i].awaited
    /\ LET r == IF token # Null
                THEN executeConfigurationCommand(settings,
                        [path |-> <<"codecov.endpoints", "0", "token">>,
                         value |-> TokenValue(token)])
                ELSE Ended(<<>>) IN
       /\ tasks' = Remove(tasks, i) \o r.next
       /\ out' = r.out
       /\ ev' = Resumption("PromptResponse", token, i, r.error)
    /\ UNCHANGED <<initialized, root, settings, lastOpenedTextDocument,
                   openDocs, hostConfig, notifs, nev>>

\* showInputRequest(...).then(...).catch(err => console.error(...))
PromptFailed(i) ==
    /\ tasks[i].kind = "prompt"
    /\ ~tasks[i].awaited
    /\ tasks' = Remove(tasks, i)
    /\ out' = <<ConsoleError("codecov.setAPIToken:")>>
    /\ ev' = Resumption("PromptFailed", "", i, "none")
    /\ UNCHANGED <<initialized, root, settings, lastOpenedTextDocument,
                   openDocs, hostConfig, notifs, nev>>

\* The host serves configuration-update requests in the order sent.
FirstUpdate(i) ==
    /\ tasks[i].kind = "update"
    /\ \A j \in 1..(i - 1) : tasks[j].kind # "update"

\* The host applies the update, answers, and notifies of the new configuration.
UpdateDone(i) ==
    /\ FirstUpdate(i)
    /\ hostConfig' = ApplyUpdate(hostConfig, tasks[i].req)
    /\ notifs' = Append(notifs, Notification(hostConfig', hostConfig, tasks[i]))
    /\ tasks' = Remove(tasks, i)
    /\ out' = <<>>
    /\ ev' = Resumption("UpdateDone", "", i, "none")
    /\ UNCHANGED <<initialized, root, settings, lastOpenedTextDocument,
                   openDocs, nev>>

\* sendRequest(ConfigurationUpdateRequest.type, ...).catch(err => console.error(...))
UpdateFailed(i) ==
    /\ FirstUpdate(i)
    /\ tasks' = Remove(tasks, i)
    /\ out' = <<ConsoleError("configuration/update:")>>
    /\ ev' = Resumption("UpdateFailed", "", i, "none")
    /\ UNCHANGED <<initialized, root, settings, lastOpenedTextDocument,
                   openDocs, hostConfig, notifs, nev>>

----------------------------------------------------------------------------
(* Coverage fetches settle, in any order *)

Fetching(i) == tasks[i].pc \in {"publish", "ctx1", "ctx2", "ratio"}

Settle(i, r, kind) ==
    /\ tasks' = IF r.next = <<>> THEN Remove(tasks, i)
                ELSE [tasks EXCEPT ![i] = r.next[1]]
    /\ out' = r.out
    /\ ev' = Resumption(kind, "", i, r.error)
    /\ UNCHANGED <<initialized, root, settings, lastOpenedTextDocument,
                   openDocs, hostConfig, notifs, nev>>

FetchDone(i) ==
    /\ Fetching(i)
    /\ \E data \in FetchResults(tasks[i].pc) :
          Settle(i, Resume(tasks[i], data, settings), "FetchDone")

FetchFailed(i) ==
    /\ Fetching(i)
    /\ Settle(i, Fail(tasks[i]), "FetchFailed")

\* The user edits the settings and the host notifies.
HostEdit(op) ==
    /\ HostEvent
    /\ hostConfig' = Edit(hostConfig, op)
    /\ notifs' = Append(notifs, Notification(hostConfig', hostConfig, NewTask("edit")))
    /\ out' = <<>>
    /\ ev' = Event("HostEdit", op, "none")
    /\ UNCHANGED <<initialized, root, settings, lastOpenedTextDocument,
                   openDocs, tasks>>

----------------------------------------------------------------------------

Next ==
    \/ \E params \in InitParams : onInitialize(params)
    \/ onInitialized
    \/ onDidChangeConfiguration
    \/ \E doc \in Docs : onDidOpen(doc)
    \/ \E doc \in Docs : onDidClose(doc)
    \/ \E cmd \in Commands : onExecuteCommand(cmd)
    \/ \E i \in DOMAIN tasks, token \in PromptAnswers : PromptResponse(i, token)
    \/ \E i \in DOMAIN tasks : PromptFailed(i)
    \/ \E i \in DOMAIN tasks : UpdateDone(i)
    \/ \E i \in DOMAIN tasks : UpdateFailed(i)
    \/ \E i \in DOMAIN tasks : FetchDone(i)
    \/ \E i \in DOMAIN tasks : FetchFailed(i)
    \/ \E op \in EditOps : HostEdit(op)

Spec == Init /\ [][Next]_vars

\* The host's user answers or dismisses every prompt that it can answer,
\* and a promise that settles runs its callbacks.
FairSpec ==
    Spec /\ WF_vars(\E i \in DOMAIN tasks :
                        \/ PromptFailed(i)
                        \/ \E token \in PromptAnswers : PromptResponse(i, token))

----------------------------------------------------------------------------
(* The first version of the extension (extension.ts and settings.ts, first  *)
(* parts): nested decoration settings, one command, no initialized flag and *)
(* no lastOpenedTextDocument; both variables keep their initial values.     *)

NoDecorations ==
    [present |-> FALSE, hide |-> Undef, lineBackgroundColors |-> Undef,
     lineHitCounts |-> Undef]

resolveDecorations(raw) ==
    LET decorations == raw.decorations IN
    IF ~decorations.present
    THEN [hide |-> Missing, lineBackgroundColors |-> "true", lineHitCounts |-> Missing]
    ELSE IF Truthy(decorations.hide) = "true"
    THEN [hide |-> "true", lineBackgroundColors |-> Missing, lineHitCounts |-> Missing]
    ELSE [hide |-> Missing,
          lineBackgroundColors |->
              IF decorations.lineBackgroundColors # "false" THEN "true" ELSE "false",
          lineHitCounts |-> Truthy(decorations.lineHitCounts)]

resolveSettingsV1(raw) ==
    [decorations |-> resolveDecorations(raw), endpoints |-> resolveEndpoints(raw)]

DefaultRawV1 ==
    [decorations |-> NoDecorations, hasEndpoints |-> FALSE, endpoints |-> <<>>]
PrivateRawV1 ==
    [DefaultRawV1 EXCEPT !.hasEndpoints = TRUE, !.endpoints = PrivateRaw.endpoints]
InitConfigsV1 == {DefaultRawV1, PrivateRawV1}

EditOpsV1 == {"touch", "endpoints", "hide"}
EditV1(config, op) ==
    IF op = "hide"
    THEN [config EXCEPT !.decorations =
              [@ EXCEPT !.present = TRUE, !.hide = Not(@)]]
    ELSE Edit(config, op)

PublishDecorationsV1(uri, s) ==
    [type |-> "textDocument/publishDecorations", uri |-> uri,
     decorations |-> s.decorations]
InitializeResultV1 ==
    [type |-> "initializeResult", commands |-> {SET_API_TOKEN_COMMAND_ID}]

InitV1 ==
    /\ initialized = FALSE
    /\ root = NullRoot
    /\ settings = Undefined
    /\ lastOpenedTextDocument = NoDoc
    /\ openDocs = <<>>
    /\ tasks = <<>>
    /\ hostConfig \in InitConfigsV1
    /\ notifs = <<>>
    /\ ev = Event("run", "", "none")
    /\ out = <<>>
    /\ nev = 0

\* connection.onInitialize
onInitializeV1(params) ==
    /\ HostEvent
    /\ LET r == IF params.root # Undef THEN resolveURI(NullRoot, params.root)
                ELSE root IN
       IF r = ThrewURI
       THEN /\ ev' = Event("Initialize", "", "MissingRoot")
            /\ out' = <<>>
            /\ UNCHANGED <<root, settings, tasks>>
       ELSE /\ root' = IF r = NullRoot THEN NullRoot
                       ELSE [repo |-> r.repo, rev |-> r.rev]
            /\ settings' = resolveSettingsV1(hostConfig)
            /\ tasks' = Detach(tasks)
            /\ ev' = Event("Initialize", "", "none")
            /\ out' = <<InitializeResultV1>>
    /\ UNCHANGED <<initialized, lastOpenedTextDocument, openDocs, hostConfig, notifs>>

\* connection.onDidChangeConfiguration
onDidChangeConfigurationV1 ==
    /\ notifs # <<>>
    /\ notifs' = Tail(notifs)
    /\ LET newSettings == resolveSettingsV1(Head(notifs).merged)
           cause == Head(notifs).by IN
       IF isEqual(settings, newSettings)
       THEN /\ ev' = [Event("ConfigurationChanged", "equal", "none")
                        EXCEPT !.task = cause.kind, !.pc = CausePath(cause)]
            /\ out' = <<>>
            /\ UNCHANGED <<settings, tasks>>
       ELSE LET t == [NewTask("cfg") EXCEPT !.live = TRUE, !.old = settings]
                r == PublishNext(t, openDocs, newSettings) IN
            /\ settings' = newSettings
            /\ tasks' = Detach(tasks) \o r.next
            /\ out' = r.out
            /\ ev' = [Event("ConfigurationChanged", "changed", r.error)
                        EXCEPT !.task = cause.kind, !.pc = CausePath(cause)]
    /\ UNCHANGED <<initialized, root, lastOpenedTextDocument, openDocs,
                   hostConfig, nev>>

\* textDocuments.onDidOpen(({ document }) => publishDecorations(settings, [document]))
onDidOpenV1(doc) ==
    /\ HostEvent
    /\ openDocs' = IF \E i \in DOMAIN openDocs : openDocs[i] = doc
                   THEN openDocs ELSE Append(openDocs, doc)
    /\ LET t == [NewTask("open1") EXCEPT !.live = TRUE, !.doc = doc]
           r == IF settings = Undefined /\ resolveURI(root, doc) # ThrewURI
                THEN Rejected(<<>>, "TypeError")
                ELSE PublishNext(t, <<doc>>, settings) IN
       /\ tasks' = tasks \o r.next
       /\ out' = r.out
       /\ ev' = Event("DidOpen", doc, r.error)
    /\ UNCHANGED <<initialized, root, settings, lastOpenedTextDocument,
                   hostConfig, notifs>>

\* The switch of onExecuteCommand: the case of SET_API_TOKEN_COMMAND_ID has
\* no break and runs on into default's throw.
CommandV1(cmd) ==
    IF cmd = SET_API_TOKEN_COMMAND_ID
    THEN IF settings = Undefined THEN Rejected(<<>>, "TypeError")
         ELSE [next  |-> <<[NewTask("prompt") EXCEPT !.pc = "prompt"]>>,
               out   |-> <<ShowInputRequest(settings.endpoints[1])>>,
               error |-> "unknown command"]
    ELSE Rejected(<<>>, "unknown command")

onExecuteCommandV1(cmd) ==
    /\ HostEvent
    /\ LET r == CommandV1(cmd) IN
       /\ tasks' = tasks \o r.next
       /\ out' = r.out
       /\ ev' = Event("ExecuteCommand", cmd, r.error)
    /\ UNCHANGED <<initialized, root, settings, lastOpenedTextDocument,
                   openDocs, hostConfig, notifs>>

\* .then(token => { if (token !== null) { return connection.sendRequest(...) } })
PromptResponseV1(i, token) ==
    /\ tasks[i].kind = "prompt"
    /\ LET configParams == [path |-> <<"codecov.endpoints", "0", "token">>,
                            value |-> TokenValue(token)]
           r == IF token # Null
                THEN Suspended([NewTask("update") EXCEPT
                                    !.pc = "update", !.req = configParams,
                                    !.old = settings, !.snap = settings],
                               <<ConfigurationUpdate(configParams)>>)
                ELSE Ended(<<>>) IN
       /\ tasks' = Remove(tasks, i) \o r.next
       /\ out' = r.out
       /\ ev' = Resumption("PromptResponse", token, i, r.error)
    /\ UNCHANGED <<initialized, root, settings, lastOpenedTextDocument,
                   openDocs, hostConfig, notifs, nev>>

\* .catch(err => console.error(err)): the prompt or the update it led to failed
ChainFailedV1(i) ==
    /\ tasks[i].kind = "prompt" \/ FirstUpdate(i)
    /\ tasks' = Remove(tasks, i)
    /\ out' = <<ConsoleError("err")>>
    /\ ev' = Resumption(IF tasks[i].kind = "prompt" THEN "PromptFailed"
                        ELSE "UpdateFailed", "", i, "none")
    /\ UNCHANGED <<initialized, root, settings, lastOpenedTextDocument,
                   openDocs, hostConfig, notifs, nev>>

ResumeV1(t, data, cur) ==
    IF t.pc = "publish"
    THEN Then(<<PublishDecorationsV1(Head(t.docs), TaskSettings(t, cur))>>,
              PublishNext(t, Tail(t.docs), cur))
    ELSE Resume(t, data, cur)

FetchDoneV1(i) ==
    /\ Fetching(i)
    /\ \E data \in FetchResults(tasks[i].pc) :
          Settle(i, ResumeV1(tasks[i], data, settings), "FetchDone")

HostEditV1(op) ==
    /\ HostEvent
    /\ hostConfig' = EditV1(hostConfig, op)
    /\ notifs' = Append(notifs, Notification(hostConfig', hostConfig, NewTask("edit")))
    /\ out' = <<>>
    /\ ev' = Event("HostEdit", op, "none")
    /\ UNCHANGED <<initialized, root, settings, lastOpenedTextDocument,
                   openDocs, tasks>>

NextV1 ==
    \/ \E params \in InitParams : onInitializeV1(params)
    \/ onInitialized
    \/ onDidChangeConfigurationV1
    \/ \E doc \in Docs : onDidOpenV1(doc)
    \/ \E doc \in Docs : onDidClose(doc)
    \/ \E cmd \in Commands : onExecuteCommandV1(cmd)
    \/ \E i \in DOMAIN tasks, token \in PromptAnswers : PromptResponseV1(i, token)
    \/ \E i \in DOMAIN tasks : ChainFailedV1(i)
    \/ \E i \in DOMAIN tasks : UpdateDone(i)
    \/ \E i \in DOMAIN tasks : FetchDoneV1(i)
    \/ \E i \in DOMAIN tasks : FetchFailed(i)
    \/ \E op \in EditOpsV1 : HostEditV1(op)

SpecV1 == InitV1 /\ [][NextV1]_vars

----------------------------------------------------------------------------
(* resolveSettings as a function of the raw settings: hostConfig is the raw *)
(* value, settings the result of resolving it once, then twice; ev.task is *)
(* the version of settings.ts.                                              *)

MaxEndpoints == 2

\* A url string that new URL() rejects: it has no scheme
BadUrl == [scheme |-> "", host |-> "h.example", rest |-> "/a"]

\* new URL(urlStr) throws a TypeError
InvalidURL(url) == url.scheme = ""

\* resolveSettings throws: some endpoint's url is non-empty and is no URL
resolveSettingsThrows(raw) ==
    /\ raw.hasEndpoints
    /\ \E i \in DOMAIN raw.endpoints :
          raw.endpoints[i].url # NoUrl /\ InvalidURL(raw.endpoints[i].url)

RawFlags == {Undef, Null, "true", "false"}
RawEndpoints ==
    {[url |-> u, token |-> t] : u \in {NoUrl, HExample, BadUrl}, t \in {Missing, "tok"}}
RawEndpointLists == UNION {[1..n -> RawEndpoints] : n \in 0..MaxEndpoints}

RawInputs ==
    {[showCoverage |-> sc, lineCoverage |-> lc, lineHitCounts |-> lh,
      hasEndpoints |-> TRUE, endpoints |-> es] :
        sc \in {Undef, "false"}, lc \in RawFlags, lh \in RawFlags,
        es \in RawEndpointLists}
    \cup {[DefaultRaw EXCEPT !.lineCoverage = lc, !.lineHitCounts = lh] :
            lc \in RawFlags, lh \in RawFlags}

RawDecorations ==
    {NoDecorations}
    \cup [present : {TRUE}, hide : {Undef, "true", "false"},
          lineBackgroundColors : {Undef, "true", "false"},
          lineHitCounts : {Undef, "true", "false"}]
RawInputsV1 ==
    {[decorations |-> d, hasEndpoints |-> he, endpoints |-> es] :
        d \in RawDecorations,
        he \in {TRUE}, es \in {<<>>, <<[url |-> HExample, token |-> "tok"]>>}}
    \cup {[DefaultRawV1 EXCEPT !.decorations = d] : d \in RawDecorations}

\* A property read from an object: undefined when it is not there
Read(v) == IF v = Missing THEN Undef ELSE v

\* A resolved first-version Settings passed where RawSettings is expected
ReadAsRawV1(s) ==
    [decorations |->
        [present |-> TRUE, hide |-> Read(s.decorations.hide),
         lineBackgroundColors |-> Read(s.decorations.lineBackgroundColors),
         lineHitCounts |-> Read(s.decorations.lineHitCounts)],
     hasEndpoints |-> TRUE, endpoints |-> s.endpoints]

SettingsInit ==
    /\ initialized = FALSE
    /\ root = NullRoot
    /\ settings = Undefined
    /\ lastOpenedTextDocument = NoDoc
    /\ openDocs = <<>>
    /\ tasks = <<>>
    /\ notifs = <<>>
    /\ out = <<>>
    /\ nev = 0
    /\ \/ hostConfig \in RawInputs /\ ev = [Event("run", "", "none") EXCEPT !.task = "v2"]
       \/ hostConfig \in RawInputsV1 /\ ev = [Event("run", "", "none") EXCEPT !.task = "v1"]

\* resolveSettings(raw), second version
ResolveRaw ==
    /\ ev.kind = "run" /\ ev.task = "v2"
    /\ IF resolveSettingsThrows(hostConfig)
       THEN /\ settings' = Undefined
            /\ ev' = [Event("resolveSettings", "raw", "TypeError") EXCEPT !.task = "v2"]
       ELSE /\ settings' = resolveSettings(hostConfig)
            /\ ev' = [Event("resolveSettings", "raw", "none") EXCEPT !.task = "v2"]
    /\ UNCHANGED <<initialized, root, lastOpenedTextDocument, openDocs, tasks,
                   hostConfig, notifs, out, nev>>

\* resolveSettings(resolveSettings(raw)), second version
ResolveResolved ==
    /\ ev.kind = "resolveSettings" /\ ev.arg = "raw" /\ ev.task = "v2"
    /\ ev.error = "none"
    /\ IF resolveSettingsThrows(settings)
       THEN /\ settings' = Undefined
            /\ ev' = [Event("resolveSettings", "resolved", "TypeError") EXCEPT !.task = "v2"]
       ELSE /\ settings' = resolveSettings(settings)
            /\ ev' = [Event("resolveSettings", "resolved", "none") EXCEPT !.task = "v2"]
    /\ UNCHANGED <<initialized, root, lastOpenedTextDocument, openDocs, tasks,
                   hostConfig, notifs, out, nev>>

\* resolveSettings(raw), first version
ResolveRawV1 ==
    /\ ev.kind = "run" /\ ev.task = "v1"
    /\ IF resolveSettingsThrows(hostConfig)
       THEN /\ settings' = Undefined
            /\ ev' = [Event("resolveSettings", "raw", "TypeError") EXCEPT !.task = "v1"]
       ELSE /\ settings' = resolveSettingsV1(hostConfig)
            /\ ev' = [Event("resolveSettings", "raw", "none") EXCEPT !.task = "v1"]
    /\ UNCHANGED <<initialized, root, lastOpenedTextDocument, openDocs, tasks,
                   hostConfig, notifs, out, nev>>

\* resolveSettings(resolveSettings(raw)), first version
ResolveResolvedV1 ==
    /\ ev.kind = "resolveSettings" /\ ev.arg = "raw" /\ ev.task = "v1"
    /\ ev.error = "none"
    /\ settings' = resolveSettingsV1(ReadAsRawV1(settings))
    /\ ev' = [Event("resolveSettings", "resolved", "none") EXCEPT !.task = "v1"]
    /\ UNCHANGED <<initialized, root, lastOpenedTextDocument, openDocs, tasks,
                   hostConfig, notifs, out, nev>>

SettingsNext == ResolveRaw \/ ResolveResolved \/ ResolveRawV1 \/ ResolveResolvedV1

SettingsSpec == SettingsInit /\ [][SettingsNext]_vars

----------------------------------------------------------------------------
(* model.ts: what the Model operations compute from the fetched commit     *)
(* data.  A string is the sequence of its characters.  hostConfig holds    *)
(* data.commit.report.files, out the value an operation returned.          *)

NaN == 0 - 2            \* Number.NaN
NoBranches == 0 - 3     \* a destructured element that is not there

Digits == <<"0", "1", "2", "3", "4", "5", "6", "7", "8", "9">>
IsDigit(c) == \E i \in DOMAIN Digits : Digits[i] = c
DigitValue(c) == (CHOOSE i \in DOMAIN Digits : Digits[i] = c) - 1

RECURSIVE LeadingDigits(_)
LeadingDigits(cs) ==
    IF cs = <<>> \/ ~IsDigit(Head(cs)) THEN <<>>
    ELSE <<Head(cs)>> \o LeadingDigits(Tail(cs))

RECURSIVE DigitsValue(_)
DigitsValue(ds) ==
    IF ds = <<>> THEN 0
    ELSE 10 * DigitsValue(SubSeq(ds, 1, Len(ds) - 1)) + DigitValue(ds[Len(ds)])

\* parseInt(cs, 10) of a string with no blanks and no sign
parseInt(cs) ==
    IF LeadingDigits(cs) = <<>> THEN NaN ELSE DigitsValue(LeadingDigits(cs))

\* parseFloat(cs) in hundredths, of a string with no blanks, sign or
\* exponent and at most two decimals
parseFloat(cs) ==
    LET i == LeadingDigits(cs)
        rest == SubSeq(cs, Len(i) + 1, Len(cs))
        f == IF rest # <<>> /\ Head(rest) = "." THEN LeadingDigits(Tail(rest))
             ELSE <<>> IN
    IF i = <<>> /\ f = <<>> THEN NaN
    ELSE 100 * DigitsValue(i)
         + (IF Len(f) > 0 THEN 10 * DigitValue(f[1]) ELSE 0)
         + (IF Len(f) > 1 THEN DigitValue(f[2]) ELSE 0)

RECURSIVE UpTo(_, _)
UpTo(cs, c) ==
    IF cs = <<>> \/ Head(cs) = c THEN <<>>
    ELSE <<Head(cs)>> \o UpTo(Tail(cs), c)

\* value.split('/', 2)
Split2(cs) ==
    LET a == UpTo(cs, "/") IN
    IF Len(a) = Len(cs) THEN <<a>>
    ELSE <<a, UpTo(SubSeq(cs, Len(a) + 2, Len(cs)), "/")>>

\* The values of a file's raw line map: a number, null, a string
RawNumber(n) == [type |-> "number", n |-> n, s |-> <<>>]
RawNullLine == [type |-> "null", n |-> 0, s |-> <<>>]
RawString(cs) == [type |-> "string", n |-> 0, s |-> cs]

\* LineCoverage: number | { hits, branches } | null
Decode(value) ==
    IF value.type = "string"
    THEN LET parts == Split2(value.s) IN
         [type |-> "hits/branches", n |-> 0, hits |-> parseInt(parts[1]),
          branches |-> IF Len(parts) > 1 THEN parseInt(parts[2]) ELSE NoBranches]
    ELSE [type |-> value.type, n |-> value.n, hits |-> 0, branches |-> 0]

\* data.commit.report.files[path], undefined when the path has no entry
NoFileData == [undefined |-> TRUE]
FileDataAt(data, path) == IF path \in DOMAIN data THEN data[path] ELSE NoFileData

\* The decoding that keeps no entry for a null line
toLineCoverage_dropNull(data, path) ==
    LET fileData == FileDataAt(data, path) IN
    IF fileData = NoFileData THEN [line \in {} |-> RawNullLine]
    ELSE LET handled == {k \in DOMAIN fileData.l :
                            fileData.l[k].type \in {"number", "string"}} IN
         [line \in {parseInt(k) : k \in handled} |->
             Decode(fileData.l[CHOOSE k \in handled : parseInt(k) = line])]

toLineCoverage(data, path) ==
    LET fileData == FileDataAt(data, path) IN
    IF fileData = NoFileData THEN [line \in {} |-> RawNullLine]
    ELSE LET handled == {k \in DOMAIN fileData.l :
                            fileData.l[k].type \in {"number", "null", "string"}} IN
         [line \in {parseInt(k) : k \in handled} |->
             Decode(fileData.l[CHOOSE k \in handled : parseInt(k) = line])]

\* The ratio parsed with no check that there is a file entry or a string
toCoverageRatio_unchecked(fileData) ==
    IF fileData = NoFileData \/ ~fileData.hasC \/ fileData.c = <<>> THEN NaN
    ELSE parseFloat(fileData.c)

toCoverageRatio(fileData) ==
    IF fileData = NoFileData \/ ~fileData.hasC \/ fileData.c = <<>> THEN NoRatio
    ELSE IF parseFloat(fileData.c) = NaN THEN NoRatio
    ELSE parseFloat(fileData.c)

getFileCoverageRatio(data, path) == toCoverageRatio(FileDataAt(data, path))

\* Model.getFileCoverageRatios, after its fetch: if (ratio) keeps a ratio
\* that is neither undefined nor 0
getFileCoverageRatios(data) ==
    [path \in {p \in DOMAIN data : toCoverageRatio(data[p]) \notin {NoRatio, 0}} |->
        toCoverageRatio(data[path])]

\* The inputs: line maps over two lines, ratio strings, one or two files
Line12 == <<"1", "2">>
Line13 == <<"1", "3">>
RawLineValues ==
    {RawNumber(3), RawNumber(0), RawNullLine, RawString(<<"2", "/", "4">>),
     RawString(<<"1", "0", "/", "0">>), RawString(<<"5">>)}
RawLineMaps ==
    UNION {[ks -> RawLineValues] : ks \in SUBSET {Line12, Line13}}
RatioStrings ==
    {<<>>, <<"n", "/", "a">>, <<"0">>, <<"0", ".", "0", "0">>,
     <<"8", "7", ".", "5", "4">>, <<"1", "0", "0">>}
FileDatas ==
    {[l |-> l, hasC |-> TRUE, c |-> c] : l \in RawLineMaps, c \in RatioStrings}
    \cup {[l |-> l, hasC |-> FALSE, c |-> <<>>] : l \in RawLineMaps}
SiblingDatas ==
    {[l |-> [k \in {} |-> RawNullLine], hasC |-> TRUE, c |-> c] :
        c \in {<<"3", "3", ".", "9">>, <<"n", "/", "a">>}}
Paths == {"a.go", "b.go"}
CommitDatas ==
    {[p \in {"a.go"} |-> fd] : fd \in FileDatas}
    \cup {[p \in Paths |-> IF p = "a.go" THEN fd ELSE sd] :
            fd \in FileDatas, sd \in SiblingDatas}
    \cup {[p \in {"b.go"} |-> sd] : sd \in SiblingDatas}

Returned(op, value) == [type |-> op, value |-> value]

DataInit ==
    /\ initialized = FALSE
    /\ root = NullRoot
    /\ settings = Undefined
    /\ lastOpenedTextDocument = NoDoc
    /\ openDocs = <<>>
    /\ tasks = <<>>
    /\ notifs = <<>>
    /\ out = <<>>
    /\ nev = 0
    /\ hostConfig \in CommitDatas
    /\ ev = Event("run", "", "none")

Computes(op, path, value) ==
    /\ ev.kind = "run"
    /\ out' = <<Returned(op, value)>>
    /\ ev' = Event(op, path, "none")
    /\ UNCHANGED <<initialized, root, settings, lastOpenedTextDocument,
                   openDocs, tasks, hostConfig, notifs, nev>>

\* Model.getFileLineCoverage, once codecovGetCommitCoverage has resolved
GetFileLineCoverage(path) ==
    Computes("getFileLineCoverage", path, toLineCoverage(hostConfig, path))

\* Model.getFileCoverageRatio, once codecovGetCommitCoverage has resolved
GetFileCoverageRatio(path) ==
    Computes("getFileCoverageRatio", path, getFileCoverageRatio(hostConfig, path))

\* Model.getFileCoverageRatios, once codecovGetCommitCoverage has resolved
GetFileCoverageRatios ==
    Computes("getFileCoverageRatios", "", getFileCoverageRatios(hostConfig))

DataNext ==
    \/ \E path \in Paths : GetFileLineCoverage(path)
    \/ \E path \in Paths : GetFileCoverageRatio(path)
    \/ GetFileCoverageRatios

DataSpec == DataInit /\ [][DataNext]_vars

----------------------------------------------------------------------------
(* model.ts: the fetch each Model operation issues, for every resolved     *)
(* settings value and location it may be called with                       *)

\* The settings values resolveSettings returns
ResolvedSettings ==
    {resolveSettings(raw) : raw \in {r \in RawInputs : ~resolveSettingsThrows(r)}}

Locations == {[repo |-> "github.com/o/r", rev |-> rev] : rev \in {"v0", "v1"}}

ModelInit ==
    /\ initialized = TRUE
    /\ root \in Locations
    /\ settings \in ResolvedSettings
    /\ lastOpenedTextDocument = NoDoc
    /\ openDocs = <<>>
    /\ tasks = <<>>
    /\ hostConfig = DefaultRaw
    /\ notifs = <<>>
    /\ ev = Event("run", "", "none")
    /\ out = <<>>
    /\ nev = 0

\* codecovGetCommitCoverage({...codecovParamsForRepositoryCommit(location),
\*                           ...codecovParamsForEndpoint(settings)})
Fetches(op, loc, path) ==
    /\ ev.kind = "run"
    /\ out' = <<Fetch(op, loc, codecovParamsForEndpoint(settings))>>
    /\ ev' = Event(op, path, "none")
    /\ UNCHANGED <<initialized, root, settings, lastOpenedTextDocument, openDocs,
                   tasks, hostConfig, notifs, nev>>

WithPath(r, path) == [repo |-> r.repo, rev |-> r.rev, path |-> path]

FetchCommitCoverageRatio == Fetches("getCommitCoverageRatio", root, "")
FetchFileLineCoverage(path) ==
    Fetches("getFileLineCoverage", WithPath(root, path), path)
FetchFileCoverageRatio(path) ==
    Fetches("getFileCoverageRatio", WithPath(root, path), path)
FetchFileCoverageRatios == Fetches("getFileCoverageRatios", root, "")

ModelNext ==
    \/ FetchCommitCoverageRatio
    \/ \E path \in Paths : FetchFileLineCoverage(path)
    \/ \E path \in Paths : FetchFileCoverageRatio(path)
    \/ FetchFileCoverageRatios

ModelSpec == ModelInit /\ [][ModelNext]_vars

----------------------------------------------------------------------------
(* decoration.ts: getDecorations once the line coverage is there.  Hues    *)
(* are whole degrees between red (0% covered) and green (100%).            *)

RED_HUE == 0
GREEN_HUE == 116
NoSignal == 0 - 1

RECURSIVE Ascending(_)
Ascending(S) ==
    IF S = {} THEN <<>>
    ELSE LET m == CHOOSE x \in S : \A y \in S : x <= y IN
         <<m>> \o Ascending(S \ {m})

\* The coverage signal of a line, in percent: the branch ratio where hits
\* and branches are both there, else covered or not
Signal(c) ==
    IF c.type = "hits/branches" /\ c.branches # NoBranches /\ c.branches # NaN
       /\ c.hits # NaN
    THEN IF c.hits + c.branches = 0 THEN NoSignal
         ELSE (c.hits * 100) \div (c.hits + c.branches)
    ELSE LET hits == IF c.type = "number" THEN c.n ELSE c.hits IN
         IF hits = NaN THEN NoSignal ELSE IF hits > 0 THEN 100 ELSE 0

lineColor(c) ==
    IF Signal(c) = NoSignal THEN NoSignal
    ELSE RED_HUE + (Signal(c) * (GREEN_HUE - RED_HUE)) \div 100

\* The trailing annotation: hits, or hits and branches
AfterText(c) ==
    IF c.type = "number" THEN <<c.n>>
    ELSE IF c.branches = NoBranches THEN <<c.hits>> ELSE <<c.hits, c.branches>>

LineDecoration(s, line, c) ==
    [line |-> line,
     backgroundColor |-> IF s.lineCoverage = "true" THEN lineColor(c) ELSE NoSignal,
     after |-> IF s.lineHitCounts = "true" THEN AfterText(c) ELSE <<>>]

\* The mapper marking the lines whose value is null, without a color
codecovToDecorations_nullMarker(s, coverage) ==
    LET lines == Ascending(DOMAIN coverage) IN
    [i \in DOMAIN lines |->
        IF coverage[lines[i]].type = "null"
        THEN [line |-> lines[i], backgroundColor |-> NoSignal, after |-> <<>>]
        ELSE LineDecoration(s, lines[i], coverage[lines[i]])]

codecovToDecorations(s, coverage) ==
    LET lines == Ascending({n \in DOMAIN coverage : coverage[n].type # "null"}) IN
    [i \in DOMAIN lines |-> LineDecoration(s, lines[i], coverage[lines[i]])]

DecorationFlags ==
    {[DefaultRaw EXCEPT !.lineCoverage = lc, !.lineHitCounts = lh] :
        lc \in {Undef, "false"}, lh \in {Undef, "true"}}

DecorationInit ==
    /\ initialized = TRUE
    /\ root = NullRoot
    /\ \E raw \in DecorationFlags : settings = resolveSettings(raw)
    /\ lastOpenedTextDocument = NoDoc
    /\ openDocs = <<>>
    /\ tasks = <<>>
    /\ notifs = <<>>
    /\ out = <<>>
    /\ nev = 0
    /\ hostConfig \in CommitDatas
    /\ ev = Event("run", "", "none")

\* getDecorations, once Model.getFileLineCoverage has resolved
GetDecorations(path) ==
    /\ ev.kind = "run"
    /\ out' = <<Returned("getDecorations",
                         codecovToDecorations(settings, toLineCoverage(hostConfig, path)))>>
    /\ ev' = Event("getDecorations", path, "none")
    /\ UNCHANGED <<initialized, root, settings, lastOpenedTextDocument,
                   openDocs, tasks, hostConfig, notifs, nev>>

DecorationNext == \E path \in Paths : GetDecorations(path)

DecorationSpec == DecorationInit /\ [][DecorationNext]_vars

----------------------------------------------------------------------------
(* A session under way: the handshake is done, two documents have been     *)
(* opened one after the other, and every fetch those events started has    *)
(* settled.  From there the host goes on as in Spec, for SessionEvents     *)
(* more events.                                                            *)

\* Host events still to come in such a session.
SessionEvents == 2

SessionRoots == {NullRoot, [repo |-> "github.com/o/r", rev |-> "v1"]}

SessionInit ==
    /\ initialized = TRUE
    /\ root \in SessionRoots
    /\ hostConfig \in InitConfigs
    /\ settings = resolveSettings(hostConfig)
    /\ openDocs \in {<<GitDoc, FileDoc>>, <<FileDoc, GitDoc>>}
    /\ lastOpenedTextDocument = openDocs[2]
    /\ tasks = <<>>
    /\ notifs = <<>>
    /\ ev = Event("run", "", "none")
    /\ out = <<>>
    /\ nev = MaxEvents - SessionEvents

SessionSpec == SessionInit /\ [][Next]_vars

----------------------------------------------------------------------------
(* Properties *)

HasFetch(o, op) == \E i \in DOMAIN o : o[i].type = "fetch" /\ o[i].op = op
HasType(o, ty) == \E i \in DOMAIN o : o[i].type = ty

\* The step is onDidChangeConfiguration handling the notification at the head.
CfgStep == ev'.kind = "ConfigurationChanged" /\ notifs # <<>> /\ notifs' = Tail(notifs)
CfgNew == resolveSettings(Head(notifs).merged)

\* The step is a suspended onDidChangeConfiguration running on from its republish.
CfgResumed == ev'.kind \in {"FetchDone", "FetchFailed"} /\ ev'.task = "cfg" /\ ev'.pc = "publish"
\* ... and still suspended in its republish after the step
StillPublishing ==
    Len(tasks') = Len(tasks) /\ tasks'[ev'.idx].pc = "publish"

\* C1: in an initialized controller, a ConfigurationChanged event whose
\* configuration resolves to the current settings sends nothing (no publish,
\* no fetch, no updateContext), starts no work, and leaves settings, root
\* and lastOpenedTextDocument as they were.
C1_EqualSettingsNoOp ==
    [][(CfgStep /\ initialized /\ settings = CfgNew)
        => /\ out' = <<>>
           /\ tasks' = tasks
           /\ settings' = settings
           /\ root' = root
           /\ lastOpenedTextDocument' = lastOpenedTextDocument]_vars

C1_Witness ==
    /\ ev.kind = "ConfigurationChanged" /\ ev.arg = "equal"
    /\ initialized /\ lastOpenedTextDocument # NoDoc /\ root # NullRoot

C3_InitializeOnce ==
    [][/\ (ev'.kind = "Initialize" /\ initialized)
          => /\ ev'.error = "already initialized"
             /\ out' = <<>>
             /\ UNCHANGED <<initialized, root, settings>>
       /\ (ev'.kind = "Initialize" /\ ~initialized) => initialized'
       /\ ev'.kind # "Initialize" => initialized' = initialized
       /\ initialized => initialized']_vars

C3_Witness ==
    /\ ev.kind = "Initialize" /\ ev.error = "already initialized"
    /\ initialized /\ root # NullRoot /\ settings # Undefined

\* The notification handled is the host's echo of a toggle command's update.
TogglePaths ==
    {<<"codecov.decorations.lineCoverage">>, <<"codecov.decorations.lineHitCounts">>}
ToggleEcho ==
    /\ CfgStep
    /\ Head(notifs).by.kind = "update"
    /\ Head(notifs).by.req.path \in TogglePaths

Updates(ts) == {i \in DOMAIN ts : ts[i].kind = "update"}

\* C4 as claimed: the ConfigurationChanged event that echoes a toggle
\* command's update resolves to the current settings and is a no-op.
C4_AsClaimed ==
    [][ToggleEcho
        => /\ settings = CfgNew
           /\ out' = <<>> /\ tasks' = tasks /\ settings' = settings]_vars

\* C4, amended: the echo of a toggle's update is a no-op whenever the host's
\* configuration just before the update resolved to the controller's
\* settings before the toggle and the controller's settings are still those
\* the toggle left; and no ConfigurationChanged event, echo or not, issues a
\* configuration-update request, so the exchange ends with the echo.
C4_EchoNoOp ==
    [][/\ (/\ ToggleEcho
           /\ resolveSettings(Head(notifs).pre) = Head(notifs).by.old
           /\ settings = Head(notifs).by.snap)
          => /\ settings = CfgNew
             /\ out' = <<>> /\ tasks' = tasks /\ settings' = settings
       /\ CfgStep
          => /\ ~HasType(out', "configuration/update")
             /\ ~HasType(out', "window/showInputRequest")
             /\ Cardinality(Updates(tasks')) = Cardinality(Updates(tasks))]_vars

C4_Witness ==
    /\ ev.kind = "ConfigurationChanged" /\ ev.arg = "equal"
    /\ ev.task = "update" /\ ev.pc = "codecov.decorations.lineCoverage"
    /\ settings.lineCoverage = "false"

\* C5 as claimed: ExecuteCommand fails with the unknown-command error if and
\* only if the command id is not one the controller handles; the first
\* version handles codecov.setAPIToken alone.
C5_AsClaimed ==
    ev.kind = "ExecuteCommand"
    => /\ ev.error = "unknown command" <=> ev.arg \notin InitializeResultV1.commands
       /\ ev.arg = SET_API_TOKEN_COMMAND_ID => ev.error # "unknown command"

\* C6: when the prompt of setAPIToken is answered with a string, exactly one
\* configuration-update request is issued, for the path
\* ['codecov.endpoints', 0, 'token'], with the string as its value, or null
\* for the empty string; when the prompt is cancelled, none is issued.
C6_TokenUpdate ==
    ev.kind = "PromptResponse"
    => LET U == Sent("configuration/update") IN
       IF ev.arg = Null THEN U = {} /\ out = <<>>
       ELSE /\ Cardinality(U) = 1
            /\ \A i \in U :
                 /\ out[i].path = <<"codecov.endpoints", "0", "token">>
                 /\ out[i].value = IF ev.arg = "" THEN Null ELSE ev.arg
            /\ \E j \in DOMAIN tasks :
                 /\ tasks[j].kind = "update"
                 /\ \A i \in U : tasks[j].req.value = out[i].value

C6_Witness ==
    /\ ev.kind = "PromptResponse" /\ ev.arg = ""
    /\ \E i \in Sent("configuration/update") : out[i].value = Null

PromptPending == \E i \in DOMAIN tasks : tasks[i].kind = "prompt"

\* C7: the setAPIToken command returns without waiting for its prompt: no
\* prompt is awaited by the handler that opened it, the command has ended
\* normally while its prompt is still open, and so, on a channel whose host
\* answers an input request only after the command's response, every open
\* prompt is eventually settled, a string answer issuing the
\* configuration-update request.
C7_Detached ==
    /\ [](\A i \in DOMAIN tasks : tasks[i].kind = "prompt" => ~tasks[i].awaited)
    /\ []((ev.kind = "ExecuteCommand" /\ ev.arg = SET_API_TOKEN_COMMAND_ID
             /\ settings # Undefined)
          => (ev.error = "none" /\ PromptPending
                /\ HasType(out, "window/showInputRequest")))
    /\ (PromptPending
          ~> \/ ev.kind = "PromptFailed"
             \/ /\ ev.kind = "PromptResponse"
                /\ ev.arg # Null => HasType(out, "configuration/update"))

C7_Witness ==
    /\ ev.kind = "ExecuteCommand" /\ ev.arg = SET_API_TOKEN_COMMAND_ID
    /\ ev.error = "none" /\ PromptPending

\* C8: a failure of the prompt, of the configuration-update request or of
\* the republish a command started is logged and goes no further: the step
\* ends without an error and leaves settings, root, initialized and
\* lastOpenedTextDocument alone, and the command handler itself never ends
\* with such a failure.
C8_CommandFailuresCaught ==
    [][/\ (\/ ev'.kind \in {"PromptFailed", "UpdateFailed"}
           \/ ev'.kind \in {"FetchFailed", "FetchDone"} /\ ev'.task = "cmd")
          => /\ ev'.error = "none"
             /\ ev'.kind # "FetchDone" => HasType(out', "error")
             /\ UNCHANGED <<settings, root, initialized, lastOpenedTextDocument>>
       /\ ev'.kind \in {"ExecuteCommand", "PromptResponse"}
          => /\ ev'.error \in {"none", "TypeError", "unknown command"}
             /\ HasType(out', "error") => ev'.error = "none"
             /\ UNCHANGED <<root, initialized, lastOpenedTextDocument>>]_vars

C8_Witness ==
    /\ ev.kind = "FetchFailed" /\ ev.task = "cmd" /\ ev.error = "none"
    /\ HasType(out, "error")

\* C9: the file-ratio fetch of DocumentOpened(doc) is started only right
\* after the publish for doc has been sent; a failure of that fetch is
\* logged and ends the handler normally, with no further publish.
C9_PublishBeforeRatio ==
    /\ \A i \in DOMAIN out :
          (out[i].type = "fetch" /\ out[i].op = "getFileCoverageRatio")
          => /\ ev.kind = "FetchDone" /\ ev.task = "open" /\ ev.pc = "publish"
             /\ i > 1
             /\ out[i - 1].type = "textDocument/publishDecorations"
             /\ resolveURI(root, out[i - 1].uri) = out[i].loc
    /\ \A i \in DOMAIN tasks :
          tasks[i].pc = "ratio" => tasks[i].kind = "open"
    /\ (ev.kind = "DidOpen" /\ settings # Undefined)
          => \/ out = <<Fetch("getFileLineCoverage", resolveURI(root, ev.arg),
                              codecovParamsForEndpoint(settings))>>
             \/ out = <<>> /\ ev.error = "MissingRoot"
    /\ (ev.task = "open" /\ ev.pc = "ratio")
          => /\ ev.error = "none"
             /\ ~HasType(out, "textDocument/publishDecorations")
             /\ ev.kind = "FetchFailed"
                => out = <<ConsoleError("Error computing file coverage ratio")>>

C9_Witness ==
    /\ ev.kind = "FetchFailed" /\ ev.task = "open" /\ ev.pc = "ratio"
    /\ initialized /\ HasType(out, "error")

UrlKeys == {<<"codecov.repoURL">>, <<"codecov.commitURL">>}

\* C10: a context refresh that has started with a non-null root carries the
\* repository and commit URLs and ends, whether its fetches succeed or fail,
\* with exactly one updateContext call that holds both; a failed fetch is
\* logged and the refresh ends without an error.
C10_RefreshWritesURLs ==
    /\ \A i \in DOMAIN tasks :
          tasks[i].pc \in {"ctx1", "ctx2"}
          => root # NullRoot /\ UrlKeys \subseteq DOMAIN tasks[i].ctx
    /\ (ev.kind = "FetchDone" /\ ev.pc = "ctx1")
          => /\ ev.error = "none" /\ tasks[ev.idx].pc = "ctx2"
             /\ ~HasType(out, "updateContext")
    /\ (\/ ev.kind = "FetchFailed" /\ ev.pc \in {"ctx1", "ctx2"}
        \/ ev.kind = "FetchDone" /\ ev.pc = "ctx2")
          => /\ ev.error = "none"
             /\ Cardinality(Sent("updateContext")) = 1
             /\ \A i \in Sent("updateContext") :
                   UrlKeys \subseteq DOMAIN out[i].context
             /\ ev.kind = "FetchFailed" => HasType(out, "error")

C10_Witness ==
    /\ ev.kind = "FetchFailed" /\ ev.pc = "ctx1"
    /\ \E i \in Sent("updateContext") : DOMAIN out[i].context = UrlKeys

\* C11: in every context passed to updateContext, a file's
\* codecov.coverageRatio key is there exactly when its codecov.fileURL key
\* is; a refresh whose fetch failed writes neither for any file.
C11_RatioWithFileURL ==
    /\ \A i \in Sent("updateContext") :
          LET c == out[i].context IN
          \A k \in DOMAIN c :
             Len(k) = 4
             => /\ <<"codecov.coverageRatio", k[2], k[3], k[4]>> \in DOMAIN c
                /\ <<"codecov.fileURL", k[2], k[3], k[4]>> \in DOMAIN c
    /\ ev.kind = "FetchFailed"
          => \A i \in Sent("updateContext") :
                \A k \in DOMAIN out[i].context : Len(k) = 1

C11_Witness ==
    \E i \in Sent("updateContext") :
       \E k \in DOMAIN out[i].context : Len(k) = 4 /\ k[1] = "codecov.fileURL"

\* C12: while root is null no context refresh is under way and nothing of
\* one is sent: no commit-ratio or file-ratios fetch, no updateContext, no
\* refresh error logged; the ready signal sends nothing and ends normally.
C12_NullRootSilent ==
    root = NullRoot
    => /\ \A i \in DOMAIN tasks : tasks[i].pc \notin {"ctx1", "ctx2"}
       /\ ~HasFetch(out, "getCommitCoverageRatio")
       /\ ~HasFetch(out, "getFileCoverageRatios")
       /\ ~HasType(out, "updateContext")
       /\ \A i \in DOMAIN out :
             out[i] # ConsoleError("Error loading Codecov file coverage")
       /\ ev.kind = "Initialized" => out = <<>> /\ ev.error = "none"

C12_Witness ==
    ev.kind = "Initialized" /\ initialized /\ root = NullRoot

ResolvedOnce ==
    IF ev.task = "v2" THEN resolveSettings(hostConfig) ELSE resolveSettingsV1(hostConfig)

\* A settings value as its readers see it: a property that is not there
\* reads as undefined.
ReadEndpoints(es) ==
    [i \in DOMAIN es |-> [url |-> es[i].url, token |-> Read(es[i].token)]]
AsRead(s) ==
    IF ev.task = "v2" THEN [s EXCEPT !.endpoints = ReadEndpoints(s.endpoints)]
    ELSE [endpoints |-> ReadEndpoints(s.endpoints),
          decorations |->
             [hide |-> Read(s.decorations.hide),
              lineBackgroundColors |-> Read(s.decorations.lineBackgroundColors),
              lineHitCounts |-> Read(s.decorations.lineHitCounts)]]

\* C13 as claimed: resolveSettings is idempotent: resolving a resolved
\* value gives a value deep-equal to it, here even up to the difference
\* between a property that is absent and one that is undefined.
C13_AsClaimed ==
    (ev.kind = "resolveSettings" /\ ev.arg = "resolved")
    => ev.error = "none" /\ isEqual(AsRead(settings), AsRead(ResolvedOnce))

\* C14: raw settings with no endpoints, the key absent or the list empty,
\* resolve to exactly one endpoint: the public default url and no token.
C14_DefaultEndpoint ==
    (ev.kind = "resolveSettings" /\ ev.arg = "raw"
       /\ (~hostConfig.hasEndpoints \/ Len(hostConfig.endpoints) = 0))
    => /\ ev.error = "none"
       /\ settings.endpoints = <<[url |-> CODECOV_IO_URL, token |-> Missing]>>

C14_Witness ==
    /\ ev.kind = "resolveSettings" /\ ev.arg = "raw" /\ ev.task = "v2"
    /\ hostConfig.hasEndpoints /\ hostConfig.endpoints = <<>>
    /\ settings.endpoints[1].url = CODECOV_IO_URL

\* C15 as claimed: raw settings with one or more endpoints, each with a
\* url, resolve to a list of the same length and order, each url reduced
\* to scheme and host and each token as it was read.
C15_AsClaimed ==
    (ev.kind = "resolveSettings" /\ ev.arg = "raw" /\ ev.task = "v2"
       /\ hostConfig.hasEndpoints /\ Len(hostConfig.endpoints) > 0
       /\ \A i \in DOMAIN hostConfig.endpoints : hostConfig.endpoints[i].url # NoUrl)
    => /\ ev.error = "none"
       /\ Len(settings.endpoints) = Len(hostConfig.endpoints)
       /\ \A i \in DOMAIN hostConfig.endpoints :
             /\ settings.endpoints[i].url =
                   [hostConfig.endpoints[i].url EXCEPT !.rest = ""]
             /\ Read(settings.endpoints[i].token) = Read(hostConfig.endpoints[i].token)

\* C16 as claimed: resolveSettings never fails; the line-coverage flag is
\* true unless the raw value is false, the line-hit-counts flag false
\* unless the raw value is true, and the coverage button is on (shown, not
\* hidden) when the raw settings say nothing of it.
C16_AsClaimed ==
    (ev.kind = "resolveSettings" /\ ev.arg = "raw" /\ ev.task = "v2")
    => /\ ev.error = "none"
       /\ settings.lineCoverage =
             IF hostConfig.lineCoverage = "false" THEN "false" ELSE "true"
       /\ settings.lineHitCounts =
             IF hostConfig.lineHitCounts = "true" THEN "true" ELSE "false"
       /\ hostConfig.showCoverage = Undef => settings.showCoverage = "true"

LineOf == [k \in {Line12, Line13} |-> IF k = Line12 THEN 12 ELSE 13]

\* C17: the decoded line coverage of a file has an entry for line n exactly
\* when the raw map has one; a number decodes to that number, null to null,
\* and a string "h/b" to hits h and branches b.
C17_LineDecoding ==
    (ev.kind = "getFileLineCoverage" /\ ev.arg \in DOMAIN hostConfig)
    => LET raw == hostConfig[ev.arg].l
           res == out[1].value IN
       /\ ev.error = "none"
       /\ DOMAIN res = {LineOf[k] : k \in DOMAIN raw}
       /\ \A k \in DOMAIN raw :
             LET v == raw[k]
                 d == res[LineOf[k]] IN
             /\ v.type = "number" => d.type = "number" /\ d.n = v.n
             /\ v.type = "null" => d.type = "null"
             /\ v.type = "string" => d.type = "hits/branches"
             /\ v = RawString(<<"2", "/", "4">>) => d.hits = 2 /\ d.branches = 4
             /\ v = RawString(<<"1", "0", "/", "0">>) => d.hits = 10 /\ d.branches = 0

C17_Witness ==
    /\ ev.kind = "getFileLineCoverage" /\ ev.arg \in DOMAIN hostConfig
    /\ DOMAIN out[1].value = {12, 13}
    /\ out[1].value[12].type = "null"
    /\ out[1].value[13].type = "hits/branches" /\ out[1].value[13].branches = 4

ExpectedRatio(c) ==
    CASE c = <<"0">> -> 0
      [] c = <<"0", ".", "0", "0">> -> 0
      [] c = <<"8", "7", ".", "5", "4">> -> 8754
      [] c = <<"1", "0", "0">> -> 10000
      [] c = <<"3", "3", ".", "9">> -> 3390
      [] OTHER -> NoRatio

\* C18 as claimed: getFileCoverageRatios omits every file whose ratio
\* string is absent or does not parse, and holds, with its parsed value,
\* every file whose ratio string parses as a percentage, 0 included.
C18_AsClaimed ==
    ev.kind = "getFileCoverageRatios"
    => /\ ev.error = "none"
       /\ \A p \in DOMAIN hostConfig :
             LET want == IF hostConfig[p].hasC THEN ExpectedRatio(hostConfig[p].c)
                         ELSE NoRatio IN
             IF want = NoRatio THEN p \notin DOMAIN out[1].value
             ELSE p \in DOMAIN out[1].value /\ out[1].value[p] = want

\* C19: for a path with no entry in the fetched data, getFileLineCoverage
\* returns the empty mapping and getFileCoverageRatio returns undefined,
\* and neither fails.
C19_NoEntry ==
    (ev.kind \in {"getFileLineCoverage", "getFileCoverageRatio"}
       /\ ev.arg \notin DOMAIN hostConfig)
    => /\ ev.error = "none"
       /\ ev.kind = "getFileLineCoverage" => DOMAIN out[1].value = {}
       /\ ev.kind = "getFileCoverageRatio" => out[1].value = NoRatio

C19_Witness ==
    /\ ev.kind = "getFileCoverageRatio" /\ ev.arg = "a.go"
    /\ DOMAIN hostConfig = {"b.go"}
    /\ out[1].value = NoRatio

\* C20: DocumentClosed(doc) clears lastOpenedTextDocument exactly when it is
\* set and is doc, and otherwise leaves it; it leaves settings, root and
\* initialized alone, sends nothing and starts nothing.
C20_CloseFrame ==
    [][ev'.kind = "DidClose"
        => /\ lastOpenedTextDocument' =
                 IF lastOpenedTextDocument # NoDoc /\ lastOpenedTextDocument = ev'.arg
                 THEN NoDoc ELSE lastOpenedTextDocument
           /\ UNCHANGED <<settings, root, initialized, tasks>>
           /\ out' = <<>> /\ ev'.error = "none"]_vars

C20_Witness ==
    /\ ev.kind = "DidClose"
    /\ lastOpenedTextDocument # NoDoc /\ lastOpenedTextDocument # ev.arg

\* The step took the task at ev'.idx out of tasks.
TaskRemoved ==
    /\ ev'.idx # 0
    /\ \/ ev'.kind \in {"PromptResponse", "PromptFailed", "UpdateDone", "UpdateFailed"}
       \/ Len(tasks') < Len(tasks)
\* Where the task at i is after the step
PlaceAfter(i) == IF TaskRemoved /\ ev'.idx < i THEN i - 1 ELSE i
\* The step settled the fetch of the task at i.
Settled(i) == ev'.kind \in {"FetchDone", "FetchFailed"} /\ ev'.idx = i

\* C21: a publish in flight is never cancelled and never re-ordered: its
\* fetch can always complete; until it settles it stays suspended with the
\* same documents, and an event that replaces the settings leaves it the
\* settings it was started with; when its fetch completes it sends the
\* notification for its document computed from those settings, whatever
\* the current settings are.  So a notification from older settings can
\* follow one from newer settings for the same document.
C21_NoCancellation ==
    [][\A i \in DOMAIN tasks :
          tasks[i].pc = "publish"
          => /\ ENABLED FetchDone(i)
             /\ (Settled(i) /\ ev'.kind = "FetchDone")
                => /\ out' # <<>>
                   /\ out'[1] = PublishDecorations(Head(tasks[i].docs),
                                                   TaskSettings(tasks[i], settings))
             /\ ~Settled(i)
                => LET j == PlaceAfter(i) IN
                   /\ j \in DOMAIN tasks'
                   /\ tasks'[j].pc = "publish"
                   /\ tasks'[j].kind = tasks[i].kind
                   /\ tasks'[j].docs = tasks[i].docs
                   /\ ev'.kind \in {"ConfigurationChanged", "Initialize"}
                      => TaskSettings(tasks'[j], settings')
                           = TaskSettings(tasks[i], settings)]_vars

\* The handler of a later settings change has just sent a document's
\* notification from the current settings while the publish an earlier
\* event started for that document, holding the replaced settings, is
\* still in flight.
C21_Witness ==
    /\ ev.kind = "FetchDone" /\ ev.task = "cfg" /\ ev.pc = "publish"
    /\ out # <<>> /\ out[1].type = "textDocument/publishDecorations"
    /\ out[1] = PublishDecorations(out[1].uri, settings)
    /\ \E i \in DOMAIN tasks :
          /\ tasks[i].kind = "open" /\ tasks[i].pc = "publish"
          /\ Head(tasks[i].docs) = out[1].uri
          /\ ~tasks[i].live
          /\ PublishDecorations(out[1].uri, tasks[i].snap) # out[1]

\* The root URI the handshake is to use: the proxy's original root if it
\* offers one, else the direct root, else none.
Offered(params) ==
    IF params.originalRootUri # Undef THEN params.originalRootUri ELSE params.root
\* The repository and revision a root URI names, if it names them
NamedRoot(uri) ==
    CASE uri = GitRoot -> [repo |-> "github.com/o/r", rev |-> "v1"]
      [] uri = OrigRoot -> [repo |-> "github.com/o/r", rev |-> "v0"]
      [] OTHER -> NullRoot

\* C22 as claimed: the first InitializeHandshake sets root from the
\* proxy-supplied original root whenever one is offered, from the direct
\* root when only that is offered, and leaves it null when neither is.
C22_AsClaimed ==
    [][\A params \in InitParams :
          (onInitialize(params) /\ ~initialized)
          => IF Offered(params) = Undef THEN root' = NullRoot
             ELSE /\ root' # NullRoot
                  /\ NamedRoot(Offered(params)) # NullRoot
                     => root' = NamedRoot(Offered(params))]_vars

\* C22, amended: the first InitializeHandshake takes the proxy-supplied
\* original root whenever one is offered, else the direct root; with
\* neither, root stays null; a root URI that names its repository and
\* revision becomes root; one that does not makes the handshake fail with
\* the missing-root error, leaving root null and settings unresolved.
C22_RootPreference ==
    [][\A params \in InitParams :
          (onInitialize(params) /\ ~initialized)
          => IF Offered(params) = Undef
             THEN root' = NullRoot /\ ev'.error = "none"
             ELSE IF NamedRoot(Offered(params)) # NullRoot
             THEN root' = NamedRoot(Offered(params)) /\ ev'.error = "none"
             ELSE /\ ev'.error = "MissingRoot"
                  /\ root' = NullRoot
                  /\ settings' = settings
                  /\ out' = <<>>]_vars

C22_Witness ==
    /\ ev.kind = "Initialize" /\ ev.error = "none"
    /\ root = NamedRoot(OrigRoot)
    /\ settings # Undefined

ModelOps ==
    {"getCommitCoverageRatio", "getFileLineCoverage", "getFileCoverageRatio",
     "getFileCoverageRatios"}

\* C23: the fetch a Model operation issues carries the url and the token of
\* endpoint 0 of the settings it was passed, and is the fetch it would
\* issue for any settings with the same endpoint 0, whatever their other
\* endpoints.
C23_FirstEndpointOnly ==
    ev.kind \in ModelOps
    => /\ Len(out) = 1 /\ out[1].type = "fetch" /\ out[1].op = ev.kind
       /\ out[1].ep.baseURL = settings.endpoints[1].url
       /\ out[1].ep.token = settings.endpoints[1].token
       /\ \A other \in ResolvedSettings :
             other.endpoints[1] = settings.endpoints[1]
             => Fetch(ev.kind, out[1].loc, codecovParamsForEndpoint(other)) = out[1]

C23_Witness ==
    /\ ev.kind = "getFileLineCoverage"
    /\ Len(settings.endpoints) = 2
    /\ settings.endpoints[2].url # settings.endpoints[1].url
    /\ settings.endpoints[2].token # settings.endpoints[1].token
    /\ out[1].ep.baseURL = settings.endpoints[1].url
    /\ out[1].ep.token = "tok"

\* What GitDoc carries
GitDocLocation == [repo |-> "github.com/o/r", rev |-> "v1", path |-> "a.go"]

\* C24: when a document is opened (settings resolved), a URI that carries
\* no repository and revision, resolved with a null root, fails with the
\* missing-root error and nothing is fetched or published for it; with a
\* root it takes the root's repository and revision; a URI that carries its
\* repository, revision and path resolves to them whatever the root is.
\* No fetch is ever issued for a location with an empty repository or
\* revision.
C24_ResolveLocation ==
    /\ (ev.kind = "DidOpen" /\ settings # Undefined)
       => IF ev.arg = GitDoc
          THEN /\ ev.error = "none"
               /\ HasFetch(out, "getFileLineCoverage")
               /\ out[1].loc = GitDocLocation
          ELSE IF root = NullRoot
          THEN ev.error = "MissingRoot" /\ out = <<>>
          ELSE /\ ev.error = "none"
               /\ HasFetch(out, "getFileLineCoverage")
               /\ out[1].loc.repo = root.repo /\ out[1].loc.rev = root.rev
    /\ \A i \in DOMAIN out :
          out[i].type = "fetch"
          => /\ out[i].loc.repo # "" /\ out[i].loc.rev # ""
             /\ root = NullRoot => out[i].loc = GitDocLocation

C24_Witness ==
    /\ ev.kind = "DidOpen" /\ ev.arg = FileDoc
    /\ settings # Undefined /\ root = NullRoot
    /\ ev.error = "MissingRoot"

\* The numbers of the lines a raw line map gives a value that is not null
CountedLines(raw) == {LineOf[k] : k \in {x \in DOMAIN raw : raw[x].type # "null"}}

\* C25: the decorations of a file are one for each line the file's coverage
\* map gives a value other than null, and none for a line with a null
\* value or no value, whether line coverage is shown or not; they are in
\* ascending line order.
C25_NullAndAbsentSuppressed ==
    ev.kind = "getDecorations"
    => LET decorations == out[1].value
           raw == IF ev.arg \in DOMAIN hostConfig THEN hostConfig[ev.arg].l
                  ELSE [k \in {} |-> RawNullLine] IN
       /\ {decorations[i].line : i \in DOMAIN decorations} = CountedLines(raw)
       /\ Len(decorations) = Cardinality(CountedLines(raw))
       /\ \A i, j \in DOMAIN decorations :
             i < j => decorations[i].line < decorations[j].line

C25_Witness ==
    /\ ev.kind = "getDecorations" /\ ev.arg \in DOMAIN hostConfig
    /\ settings.lineCoverage = "true"
    /\ DOMAIN hostConfig[ev.arg].l = {Line12, Line13}
    /\ hostConfig[ev.arg].l[Line12].type = "null"
    /\ Len(out[1].value) = 1 /\ out[1].value[1].line = 13

\* C26 as claimed: on a ConfigurationChanged event whose resolved settings
\* differ from the current ones, the republish is performed (a coverage
\* fetch for a document is started, or its location fails to resolve)
\* whenever a document is open, and is skipped only when none is.
C26_AsClaimed ==
    [][(CfgStep /\ settings # CfgNew)
        => ((openDocs # <<>>)
              <=> (HasFetch(out', "getFileLineCoverage") \/ ev'.error = "MissingRoot"))]_vars

\* C27 as claimed: when the coverage fetch of a decoration publish fails,
\* the handler that awaits the publish does not fail: the publish goes on
\* to its remaining documents; after the last one DocumentOpened starts
\* its ratio fetch, and ConfigurationChanged starts the context refresh if
\* the endpoint list changed and a root is known.
C27_AsClaimed ==
    [][(ev'.kind = "FetchFailed" /\ ev'.pc = "publish")
        => LET t == tasks[ev'.idx] IN
           /\ ev'.error = "none"
           /\ Len(t.docs) > 1 => HasFetch(out', "getFileLineCoverage")
           /\ (Len(t.docs) = 1 /\ t.kind = "open")
              => HasFetch(out', "getFileCoverageRatio")
           /\ (Len(t.docs) = 1 /\ t.kind = "cfg" /\ t.old # Undefined
                 /\ root # NullRoot /\ settings.endpoints # t.old.endpoints)
              => HasFetch(out', "getCommitCoverageRatio")]_vars

ResumedWith(i, pc, data) ==
    /\ i \in DOMAIN tasks
    /\ tasks[i].pc = pc
    /\ Settle(i, Resume(tasks[i], data, settings), "FetchDone")

\* C29 as claimed: in a context refresh codecov.commitCoverage is written as
\* the commit ratio whenever the service reported one, 0 included, and as
\* null only when it reported none; and for each path p with ratio r in
\* the fetched table, codecov.coverageRatio.<u> is floor(r) and
\* codecov.fileURL.<u> is <repoURL>/src/<sha>/<p>, u being the URI of p in
\* the root's repository and revision.
C29_AsClaimed ==
    [][\A i \in 1..MaxTasks :
          /\ \A ratio \in CommitRatios :
                ResumedWith(i, "ctx1", ratio)
                => tasks'[i].ctx[<<"codecov.commitCoverage">>]
                     = IF ratio = NoRatio THEN <<CtxNull>> ELSE <<toFixed1(ratio)>>
          /\ \A table \in FileTables :
                ResumedWith(i, "ctx2", table)
                => /\ Len(out') = 1 /\ out'[1].type = "updateContext"
                   /\ \A p \in DOMAIN table :
                         LET c == out'[1].context IN
                         /\ <<"codecov.coverageRatio", root.repo, root.rev, p>> \in DOMAIN c
                         /\ c[<<"codecov.coverageRatio", root.repo, root.rev, p>>]
                              = <<table[p] \div 100>>
                         /\ <<"codecov.fileURL", root.repo, root.rev, p>> \in DOMAIN c
                         /\ c[<<"codecov.fileURL", root.repo, root.rev, p>>]
                              = <<"https://codecov.io", "gh", "o", "r", "src", root.rev, p>>]_vars

IsFetch(o) == o.type = "fetch"
ForRoot(loc) == loc.repo = root.repo /\ loc.rev = root.rev

\* C30 as claimed: only an InitializeHandshake writes root, so once root
\* is set every fetch and every context key is for the root's repository
\* and revision.
C30_AsClaimed ==
    /\ [][ev'.kind # "Initialize" => root' = root]_vars
    /\ [](root # NullRoot
            => \A i \in DOMAIN out :
                  /\ IsFetch(out[i]) => ForRoot(out[i].loc)
                  /\ out[i].type = "updateContext"
                     => \A k \in DOMAIN out[i].context :
                           Len(k) = 4 => k[2] = root.repo /\ k[3] = root.rev)

\* C30, amended: only an InitializeHandshake writes root, and only the
\* first one; every other event and every resumption leaves it as it is.
\* So the fetches of a context refresh, every context key, and the fetches
\* for a document whose URI does not carry a repository and revision are
\* for the root's; the fetches for a document whose URI carries them are
\* for the document's own.
C30_RootFrame ==
    /\ [][/\ ev'.kind # "Initialize" => root' = root
          /\ root # NullRoot => root' = root
          /\ initialized => root' = root]_vars
    /\ [](\A i \in DOMAIN tasks :
            tasks[i].pc \in {"ctx1", "ctx2"} => root # NullRoot)
    /\ [](\A i \in DOMAIN out :
            /\ IsFetch(out[i])
               => \/ root # NullRoot /\ ForRoot(out[i].loc)
                  \/ /\ out[i].op \in {"getFileLineCoverage", "getFileCoverageRatio"}
                     /\ out[i].loc = GitDocLocation
            /\ (IsFetch(out[i])
                  /\ out[i].op \in {"getCommitCoverageRatio", "getFileCoverageRatios"})
               => out[i].loc = root
            /\ out[i].type = "updateContext"
               => /\ root # NullRoot
                  /\ \A k \in DOMAIN out[i].context :
                        Len(k) = 4 => k[2] = root.repo /\ k[3] = root.rev)

C30_Witness ==
    /\ ev.kind = "ConfigurationChanged" /\ ev.arg = "changed"
    /\ root = NamedRoot(OrigRoot)
    /\ HasFetch(out, "getCommitCoverageRatio") /\ out[1].loc = root

\* The document is among textDocuments.all().
IsOpen(doc) == \E i \in DOMAIN openDocs : openDocs[i] = doc

\* C31: whenever lastOpenedTextDocument is set it refers to a document that
\* is open: after any sequence of open and close events (a close only of a
\* document that is open) it never refers to a closed document.
C31_LastOpenedIsOpen ==
    lastOpenedTextDocument # NoDoc => IsOpen(lastOpenedTextDocument)

\* A document other than the last opened one has just been closed: the
\* reference is kept, and its document is the one still open.
C31_Witness ==
    /\ ev.kind = "DidClose"
    /\ lastOpenedTextDocument # NoDoc /\ lastOpenedTextDocument # ev.arg
    /\ openDocs = <<lastOpenedTextDocument>>

\* The publish at i has just sent a document's notification and is suspended
\* on the fetch for its next document.
MidPublish(i) ==
    /\ ev.kind = "FetchDone" /\ ev.pc = "publish" /\ ev.idx = i
    /\ i \in DOMAIN tasks
    /\ tasks[i].pc = "publish" /\ tasks[i].kind = ev.task
    /\ Len(out) = 2
    /\ out[1].type = "textDocument/publishDecorations"
    /\ out[2].type = "fetch" /\ out[2].op = "getFileLineCoverage"

Flags(s) == <<s.lineCoverage, s.lineHitCounts>>

\* C32 as claimed: when a publishDecorations invocation has published a
\* document and a toggle command or ConfigurationChanged event is handled
\* while it is suspended on the fetch for its next document, the flag values
\* it publishes that document with are those it published the first with.
C32_AsClaimed ==
    [][\A i \in DOMAIN tasks :
          (MidPublish(i) /\ ev'.kind \in {"ExecuteCommand", "ConfigurationChanged"})
          => /\ i \in DOMAIN tasks' /\ tasks'[i].pc = "publish"
             /\ Flags(TaskSettings(tasks'[i], settings'))
                  = <<out[1].lineCoverage, out[1].lineHitCounts>>]_vars

\* C33 as claimed: within one context refresh the file-ratios fetch is issued
\* for the endpoint (url and token) the commit-ratio fetch was issued for,
\* also when a ConfigurationChanged event that changes endpoint 0 was handled
\* while the refresh was suspended on the commit-ratio fetch.
C33_AsClaimed ==
    [][\A i \in DOMAIN tasks :
          (tasks[i].pc = "ctx1" /\ Settled(i) /\ ev'.kind = "FetchDone")
          => /\ Len(out') = 1
             /\ out'[1].type = "fetch" /\ out'[1].op = "getFileCoverageRatios"
             /\ out'[1].ep = tasks[i].ep]_vars

\* C34 as claimed: a ConfigurationChanged handler that comes out of its
\* republish starts the context refresh exactly when the endpoints of the
\* settings it installed differ from those of the settings it replaced,
\* also when another ConfigurationChanged event was handled while it was
\* suspended (a root being known).
C34_AsClaimed ==
    [][\A i \in DOMAIN tasks :
          (/\ tasks[i].kind = "cfg" /\ tasks[i].pc = "publish"
           /\ Len(tasks[i].docs) = 1
           /\ Settled(i) /\ ev'.kind = "FetchDone"
           /\ root # NullRoot /\ tasks[i].old # Undefined)
          => (HasFetch(out', "getCommitCoverageRatio")
                <=> TaskSettings(tasks[i], settings).endpoints
                      # tasks[i].old.endpoints)]_vars

\* C35 as claimed: while the controller is uninitialized no step issues a
\* coverage fetch, a publish-decorations notification or an updateContext
\* call, and a DocumentOpened, ConfigurationChanged or Initialized event
\* sends nothing and raises no error.
C35_AsClaimed ==
    [][~initialized
        => /\ \A i \in DOMAIN out' :
                 out'[i].type \notin {"fetch", "textDocument/publishDecorations",
                                      "updateContext"}
           /\ ev'.kind \in {"DidOpen", "ConfigurationChanged", "Initialized"}
              => out' = <<>> /\ ev'.error = "none"]_vars

====
